---- MODULE Spec2Model ----
(***************************************************************************)
(* A model of the Modbus TCP -> RTU relay: the CRC and frame codec, the    *)
(* protocol bridge (ModbusProcessor), the RTU transport with its serial    *)
(* lock, and the connection manager with its admission permits.            *)
(*                                                                         *)
(* Bytes are integers 0..255, byte strings are sequences (1-indexed: the   *)
(* Rust index i is the index i+1 here).  A Result is a record with the     *)
(* fields ok, val and err.                                                 *)
(***************************************************************************)
EXTENDS Integers, Sequences, FiniteSets, TLC

(***************************************************************************)
(* Integer helpers for the u8/u16 arithmetic of the code.                  *)
(***************************************************************************)
RECURSIVE BitXor(_, _)
BitXor(a, b) ==
    IF a = 0 THEN b
    ELSE IF b = 0 THEN a
    ELSE (((a % 2) + (b % 2)) % 2) + 2 * BitXor(a \div 2, b \div 2)

\* x | 0x80 on a byte.
Or0x80(x) == IF x >= 128 THEN x ELSE x + 128

\* u16::from_be_bytes([hi, lo]) and u16::to_be_bytes / to_le_bytes.
from_be_bytes(hi, lo) == 256 * hi + lo
from_le_bytes(lo, hi) == 256 * hi + lo
to_be_bytes(v) == << (v \div 256) % 256, v % 256 >>
to_le_bytes(v) == << v % 256, (v \div 256) % 256 >>

\* A Rust slice s[from..to] with 0-based, half-open bounds.
Slice(s, from, to) == SubSeq(s, from + 1, to)

Ok(v) == [ok |-> TRUE, val |-> v, err |-> "none"]
Err(e) == [ok |-> FALSE, val |-> << >>, err |-> e]

(***************************************************************************)
(* modbus.rs: calc_crc16, with its 256-entry table.                        *)
(***************************************************************************)
CRC16_TABLE ==
    << 
       0, 49345, 49537, 320, 49921, 960, 640, 49729,
       50689, 1728, 1920, 51009, 1280, 50625, 50305, 1088,
       52225, 3264, 3456, 52545, 3840, 53185, 52865, 3648,
       2560, 51905, 52097, 2880, 51457, 2496, 2176, 51265,
       55297, 6336, 6528, 55617, 6912, 56257, 55937, 6720,
       7680, 57025, 57217, 8000, 56577, 7616, 7296, 56385,
       5120, 54465, 54657, 5440, 55041, 6080, 5760, 54849,
       53761, 4800, 4992, 54081, 4352, 53697, 53377, 4160,
       61441, 12480, 12672, 61761, 13056, 62401, 62081, 12864,
       13824, 63169, 63361, 14144, 62721, 13760, 13440, 62529,
       15360, 64705, 64897, 15680, 65281, 16320, 16000, 65089,
       64001, 15040, 15232, 64321, 14592, 63937, 63617, 14400,
       10240, 59585, 59777, 10560, 60161, 11200, 10880, 59969,
       60929, 11968, 12160, 61249, 11520, 60865, 60545, 11328,
       58369, 9408, 9600, 58689, 9984, 59329, 59009, 9792,
       8704, 58049, 58241, 9024, 57601, 8640, 8320, 57409,
       40961, 24768, 24960, 41281, 25344, 41921, 41601, 25152,
       26112, 42689, 42881, 26432, 42241, 26048, 25728, 42049,
       27648, 44225, 44417, 27968, 44801, 28608, 28288, 44609,
       43521, 27328, 27520, 43841, 26880, 43457, 43137, 26688,
       30720, 47297, 47489, 31040, 47873, 31680, 31360, 47681,
       48641, 32448, 32640, 48961, 32000, 48577, 48257, 31808,
       46081, 29888, 30080, 46401, 30464, 47041, 46721, 30272,
       29184, 45761, 45953, 29504, 45313, 29120, 28800, 45121,
       20480, 37057, 37249, 20800, 37633, 21440, 21120, 37441,
       38401, 22208, 22400, 38721, 21760, 38337, 38017, 21568,
       39937, 23744, 23936, 40257, 24320, 40897, 40577, 24128,
       23040, 39617, 39809, 23360, 39169, 22976, 22656, 38977,
       34817, 18624, 18816, 35137, 19200, 35777, 35457, 19008,
       19968, 36545, 36737, 20288, 36097, 19904, 19584, 35905,
       17408, 33985, 34177, 17728, 34561, 18368, 18048, 34369,
       33281, 17088, 17280, 33601, 16640, 33217, 32897, 16448
    >>

crc_init == 65535

\* Mutant of crc_step: the CRC shifted by 7 bits instead of 8.
crc_step_shift7(crc, byte) ==
    LET index == BitXor(crc, byte) % 256
    IN  BitXor(crc \div 128, CRC16_TABLE[index + 1])

\* One iteration of the loop body: index = (crc ^ byte) & 0xFF;
\* crc = (crc >> 8) ^ CRC16_TABLE[index].
crc_step(crc, byte) ==
    LET index == BitXor(crc, byte) % 256
    IN  BitXor(crc \div 256, CRC16_TABLE[index + 1])

RECURSIVE crc_fold(_, _, _)
crc_fold(data, i, crc) ==
    IF i > Len(data) THEN crc
    ELSE crc_fold(data, i + 1, crc_step(crc, data[i]))

calc_crc16(data) == crc_fold(data, 1, crc_init)

(***************************************************************************)
(* modbus.rs: guess_response_size, get_u16_from_request, get_quantity.     *)
(***************************************************************************)
div_ceil(n, d) == (n + d - 1) \div d

\* Mutant of guess_response_size: one byte per register, and the write
\* functions sized without their CRC.
guess_response_size_short(function, quantity) ==
    CASE function \in {1, 2}   -> 1 + 1 + 1 + div_ceil(quantity, 8) + 2
      [] function \in {3, 4}   -> 1 + 1 + 1 + quantity + 2
      [] function \in {5, 6}   -> 1 + 1 + 2 + 2
      [] function \in {15, 16} -> 1 + 1 + 2 + 2 + 2
      [] OTHER                 -> 256

guess_response_size(function, quantity) ==
    CASE function \in {1, 2}   -> 1 + 1 + 1 + div_ceil(quantity, 8) + 2
      [] function \in {3, 4}   -> 1 + 1 + 1 + quantity * 2 + 2
      [] function \in {5, 6}   -> 1 + 1 + 2 + 2 + 2
      [] function \in {15, 16} -> 1 + 1 + 2 + 2 + 2
      [] OTHER                 -> 256

get_u16_from_request(request, start) ==
    IF start + 2 <= Len(request)
    THEN Ok(from_be_bytes(request[start + 1], request[start + 2]))
    ELSE Err("InvalidFormat")

get_quantity(function_code, request) ==
    CASE function_code \in {1, 2, 3, 4, 15, 16} -> get_u16_from_request(request, 4)
      [] function_code \in {5, 6}               -> Ok(1)
      [] OTHER                                  -> Ok(1)

(***************************************************************************)
(* modbus_relay.rs: read_frame.  rd is the outcome of the one timed        *)
(* reader.read(&mut tcp_buf): kind "data" with the n bytes read            *)
(* (tcp_buf[..n], n <= 256), kind "error" or kind "timeout".               *)
(***************************************************************************)
TcpBufSize == 256

\* Mutant of read_frame: the length bound off by one (length > 250) and the
\* minimum read of 6 bytes.
read_frame_off_by_one(rd) ==
    IF rd.kind = "timeout" THEN Err("ConnectionTimeout")
    ELSE IF rd.kind = "error" THEN Err("InvalidState")
    ELSE
      LET tcp_buf == rd.data
          n == Len(rd.data)
      IN  IF n = 0 THEN Err("Disconnected")
          ELSE IF n < 6 THEN Err("TooShort")
          ELSE
            LET transaction_id == << tcp_buf[1], tcp_buf[2] >>
                protocol_id == from_be_bytes(tcp_buf[3], tcp_buf[4])
                length == from_be_bytes(tcp_buf[5], tcp_buf[6])
            IN  IF protocol_id # 0 THEN Err("InvalidProtocolId")
                ELSE IF length > 250 THEN Err("TooLong")
                ELSE IF length + 6 # n THEN Err("InvalidFormat")
                ELSE Ok([frame |-> tcp_buf, transaction_id |-> transaction_id])

read_frame(rd) ==
    IF rd.kind = "timeout" THEN Err("ConnectionTimeout")
    ELSE IF rd.kind = "error" THEN Err("InvalidState")
    ELSE
      LET tcp_buf == rd.data
          n == Len(rd.data)
      IN  IF n = 0 THEN Err("Disconnected")
          ELSE IF n < 7 THEN Err("TooShort")
          ELSE
            LET transaction_id == << tcp_buf[1], tcp_buf[2] >>
                protocol_id == from_be_bytes(tcp_buf[3], tcp_buf[4])
                length == from_be_bytes(tcp_buf[5], tcp_buf[6])
            IN  IF protocol_id # 0 THEN Err("InvalidProtocolId")
                ELSE IF length > 249 THEN Err("TooLong")
                ELSE IF length + 6 # n THEN Err("InvalidFormat")
                ELSE Ok([frame |-> tcp_buf, transaction_id |-> transaction_id])

(***************************************************************************)
(* modbus.rs: ModbusProcessor::process_request, in the three parts that    *)
(* surround its one await (the RTU transaction).  A request is the record  *)
(* [transaction_id, unit_id, pdu] of its arguments.                        *)
(***************************************************************************)
\* modbus_relay.rs: process_frame takes unit id and PDU out of the frame.
process_frame_args(frame, transaction_id) ==
    [transaction_id |-> transaction_id,
     unit_id |-> frame[7],
     pdu |-> Slice(frame, 7, Len(frame))]

\* [Unit ID][PDU][CRC16 little-endian].
build_rtu_request(unit_id, pdu) ==
    LET body == << unit_id >> \o pdu
    IN  body \o to_le_bytes(calc_crc16(body))

\* A function code that reads an empty PDU as read coils.
function_code_of_coils(pdu) == IF Len(pdu) > 0 THEN pdu[1] ELSE 1

\* pdu.first().copied().unwrap_or(0)
function_code_of(pdu) == IF Len(pdu) > 0 THEN pdu[1] ELSE 0

\* The size of the response buffer the bridge allocates, or the error of
\* get_quantity (returned with `?` before any transaction).
bridge_response_size(req) ==
    LET rtu_request == build_rtu_request(req.unit_id, req.pdu)
        function_code == function_code_of(req.pdu)
        quantity == get_quantity(function_code, rtu_request)
    IN  IF quantity.ok
        THEN Ok(guess_response_size(function_code, quantity.val))
        ELSE quantity

\* The Modbus exception reply built when the transaction returned Err.
exception_response(req) ==
    req.transaction_id \o << 0, 0 >> \o << 0, 3 >>
      \o << req.unit_id, Or0x80(function_code_of(req.pdu)), 11 >>

\* The part after a transaction that returned Ok(rtu_len) with the bytes
\* rtu_response[..rtu_len].
tcp_response(req, rtu_response) ==
    LET rtu_len == Len(rtu_response)
    IN  IF rtu_len < 5 THEN Err("TooShort")
        ELSE
          LET expected_crc == calc_crc16(Slice(rtu_response, 0, rtu_len - 2))
              received_crc == from_le_bytes(rtu_response[rtu_len - 1],
                                            rtu_response[rtu_len])
              stripped == Slice(rtu_response, 0, rtu_len - 2)
          IN  IF expected_crc # received_crc THEN Err("Crc")
              ELSE IF stripped[1] # req.unit_id THEN Err("InvalidUnitId")
              ELSE Ok(req.transaction_id \o << 0, 0 >>
                        \o to_be_bytes(Len(stripped)) \o stripped)

\* A match that hands the transaction's error on.
after_transaction_propagate(req, tx) ==
    IF tx.ok THEN tcp_response(req, tx.val) ELSE Err(tx.err)

\* The match on the transaction's result: Err(_) becomes the exception reply.
after_transaction(req, tx) ==
    IF tx.ok THEN tcp_response(req, tx.val) ELSE Ok(exception_response(req))

(***************************************************************************)
(* State.                                                                  *)
(*   call, ret : one call of a codec function and its return value.        *)
(*   config    : the RelayConfig fields the bridge and the transport read.  *)
(*   workload  : the requests the client handlers may submit.              *)
(*   pc, req   : per caller of process_request, where it is and with what  *)
(*               arguments.                                                *)
(*   tx        : per caller, the locals of its transaction: the RTU        *)
(*               request, the length of the response buffer and the size   *)
(*               the read loop waits for.                                  *)
(*   rbuf      : per caller, response[..total_bytes] of its read loop.     *)
(*   consecutive_timeouts : per caller, the read loop's counter.           *)
(*   txres     : per caller, what RtuTransport::transaction returned.      *)
(*   result    : per caller, what process_request returned.                *)
(*   served    : per caller, the number of requests it has submitted.      *)
(*   reply     : per caller, what the device answers to its request.       *)
(*   port_lock : the holder of RtuTransport::port (a tokio Mutex), or 0.   *)
(*   rts       : the level of the RTS line (TRUE = high).                  *)
(*   ops       : the serial-port operations of the transaction that last   *)
(*               held the lock, in order, with the caller that made them.  *)
(*   rx_buf    : bytes received by the OS and not yet read.                *)
(*   dev_out   : bytes the device has yet to deliver.                      *)
(*   conn_config : max_connections and per_ip_limits (a set: empty for     *)
(*               None, {L} for Some(L)) of ConnectionConfig.               *)
(*   conn      : per client connection, the position of its handle_client  *)
(*               task, its peer address, the permits it holds, the error   *)
(*               of a failed accept, how it left, and how often the        *)
(*               counter of its peer was decremented for its guard.        *)
(*   global_semaphore  : the permits left in Manager::global_semaphore.    *)
(*   per_ip_semaphores : per address with a semaphore, the permits left.   *)
(*   stats     : Manager::stats, per address with an entry its             *)
(*               active_connections and whether now - last_active has      *)
(*               reached idle_timeout.                                     *)
(*   stats_lock : who holds the mutex of Manager::stats.                   *)
(*   total_connections : Manager::total_connections.                       *)
(*   stats_chan : the StatEvents sent and not yet received.                *)
(*   cleanup   : the cleanup task: its position and its to_clean list.     *)
(*   stats_map : StatsManager::stats, per address with an entry its        *)
(*               counters, whether now - last_active exceeds idle_timeout  *)
(*               and whether last_error is unset, within error_timeout or  *)
(*               older.                                                    *)
(*   actor     : StatsManager::run: its position, how it returned and      *)
(*               StatsManager::total_connections.                          *)
(*   stats_shutdown : the watch channel handed to StatsManager::run.       *)
(*   queries   : per query event, the state of its oneshot channel.        *)
(*   hist      : history: the events enqueued and handled so far, the      *)
(*               number enqueued and the number on the channel when the    *)
(*               actor observed its shutdown signal, and the addresses an  *)
(*               idle cleanup removed.                                     *)
(*   client    : per client handler of handle_client, its position, what   *)
(*               it read and wrote, and how it ended.                      *)
(*   relay     : the shutdown broadcast and the state of the serial port.  *)
(***************************************************************************)
VARIABLES call, ret,
          config, workload, pc, req, tx, rbuf, consecutive_timeouts, txres,
          result, served, reply, port_lock, rts, ops, rx_buf, dev_out,
          conn_config, conn, global_semaphore, per_ip_semaphores, stats,
          stats_lock, total_connections, stats_chan, cleanup,
          stats_map, actor, stats_shutdown, queries, hist,
          client, relay,
          strategy

codec_vars == << call, ret >>
caller_vars == << pc, req, tx, rbuf, consecutive_timeouts, txres, result, served,
                 reply >>
line_vars == << port_lock, rts, ops, rx_buf, dev_out >>
rtu_vars == << config, workload, pc, req, tx, rbuf, consecutive_timeouts, txres,
               result, served, reply, port_lock, rts, ops, rx_buf, dev_out >>

vars == << call, ret,
           config, workload, pc, req, tx, rbuf, consecutive_timeouts, txres,
           result, served, reply, port_lock, rts, ops, rx_buf, dev_out,
           conn_config, conn, global_semaphore, per_ip_semaphores, stats,
           stats_lock, total_connections, stats_chan, cleanup,
           stats_map, actor, stats_shutdown, queries, hist,
           client, relay,
           strategy >>

conn_vars == << conn_config, conn, global_semaphore, per_ip_semaphores, stats,
                stats_lock, total_connections, stats_chan, cleanup >>

actor_vars == << stats_map, actor, stats_shutdown, queries, hist >>

relay_vars == << client, relay >>

backoff_vars == << strategy >>

Pending == [ok |-> FALSE, val |-> << >>, err |-> "pending"]

(***************************************************************************)
(* The codec functions on bounded inputs: calc_crc16 on the empty input,   *)
(* every single byte and a few frames; guess_response_size on every        *)
(* function code; read_frame on reads of 0..256 bytes.                     *)
(***************************************************************************)
Bytes == 0 .. 255

\* 11 03 00 6B 00 03: read 3 holding registers from 0x006B of unit 0x11.
ReadHoldingBody == << 17, 3, 0, 107, 0, 3 >>
\* 11 03 06 02 2B 00 00 00 64: the device's answer, without its CRC.
ReadHoldingReplyBody == << 17, 3, 6, 2, 43, 0, 0, 0, 100 >>

CrcInputs ==
    { << >> } \cup { << b >> : b \in Bytes }
      \cup { ReadHoldingBody, ReadHoldingReplyBody, << 255, 255 >>, << 1, 0 >> }

Quantities == { 0, 1, 8, 9, 16, 125, 2000, 65535 }

SizeInputs == Bytes \X Quantities

\* The bytes of a read: a 6-byte MBAP prefix (transaction id 00 01, the given
\* protocol id and length field) followed by unit id 0x11 and a PDU of 0x03
\* bytes, cut to n bytes.
FrameBytes(n, pid, lenField) ==
    LET full == [i \in 1 .. TcpBufSize |->
                   CASE i = 1 -> 0
                     [] i = 2 -> 1
                     [] i = 3 -> pid[1]
                     [] i = 4 -> pid[2]
                     [] i = 5 -> lenField[1]
                     [] i = 6 -> lenField[2]
                     [] i = 7 -> 17
                     [] OTHER -> 3]
    IN  SubSeq(full, 1, n)

FrameLens == { 0, 1, 5, 6, 7, 8, 12, 13, 255, 256 }
ProtocolIds == { << 0, 0 >>, << 0, 1 >>, << 1, 0 >> }
LenFields ==
    { to_be_bytes(l) : l \in { 0, 1, 2, 6, 7, 249, 250, 256, 65535 } }

FrameReads ==
    { [kind |-> "data", data |-> FrameBytes(n, pid, lf)] :
        n \in FrameLens, pid \in ProtocolIds, lf \in LenFields }
      \cup { [kind |-> "error", data |-> << >>],
             [kind |-> "timeout", data |-> << >>] }

CodecCalls ==
    { [op |-> "calc_crc16", arg |-> d] : d \in CrcInputs }
      \cup { [op |-> "guess_response_size", arg |-> a] : a \in SizeInputs }
      \cup { [op |-> "read_frame", arg |-> r] : r \in FrameReads }

\* No caller, an idle serial line.
RtuUnused ==
    /\ config = [rts_type |-> "down", rts_delay_us |-> 0,
                 flush_after_write |-> TRUE, max_frame_size |-> 256,
                 trace_frames |-> FALSE]
    /\ workload = {}
    /\ pc = << >>
    /\ req = << >>
    /\ tx = << >>
    /\ rbuf = << >>
    /\ consecutive_timeouts = << >>
    /\ txres = << >>
    /\ result = << >>
    /\ served = << >>
    /\ reply = << >>
    /\ port_lock = 0
    /\ rts = FALSE
    /\ ops = << >>
    /\ rx_buf = << >>
    /\ dev_out = << >>

CodecUnused ==
    /\ call = [op |-> "none", arg |-> << >>]
    /\ ret = Pending

\* No client connection.
ConnUnused ==
    /\ conn_config = [max_connections |-> 100, per_ip_limits |-> {10}]
    /\ conn = << >>
    /\ global_semaphore = 100
    /\ per_ip_semaphores = << >>
    /\ stats = << >>
    /\ stats_lock = "free"
    /\ total_connections = 0
    /\ stats_chan = << >>
    /\ cleanup = [pc |-> "wait", to_clean |-> {}, quiet |-> {}]

\* ModbusRelay::new, and whether run has subscribed and spawned its tasks.
\* shutdown: the broadcast has been sent; port: the serial port; pc, ret:
\* where shutdown() is and what it returned; tasks: the tasks of self.tasks
\* that have not ended; close, join: how steps 4 and 5 of shutdown() ended.
NewRelay(running) ==
    [shutdown |-> FALSE, port |-> "open", pc |-> "idle", ret |-> Pending,
     running |-> running, main_shutdown |-> FALSE,
     tasks |-> IF running THEN { "tcp_server", "cleanup" } ELSE {},
     close |-> "none", join |-> "none"]

\* A stats actor that has received nothing.
ActorUnused ==
    /\ stats_map = << >>
    /\ actor = [pc |-> "running", exit |-> "none", total_connections |-> 0]
    /\ stats_shutdown = "open"
    /\ queries = << >>
    /\ hist = [enqueued |-> 0, handled |-> << >>, seen |-> 0, backlog |-> 0,
              cleaned |-> {}]

\* No client handler, no shutdown.
RelayUnused ==
    /\ client = << >>
    /\ relay = NewRelay(TRUE)

\* No BackoffStrategy has been made.
BackoffUnused == strategy = << >>

InitCodec ==
    /\ call \in CodecCalls
    /\ ret = Pending
    /\ RtuUnused
    /\ ConnUnused
    /\ ActorUnused
    /\ RelayUnused
    /\ BackoffUnused

CallCalcCrc16 ==
    /\ call.op = "calc_crc16"
    /\ ret = Pending
    /\ ret' = Ok(calc_crc16(call.arg))
    /\ UNCHANGED << call, backoff_vars, rtu_vars, conn_vars, actor_vars, relay_vars >>

CallGuessResponseSize ==
    /\ call.op = "guess_response_size"
    /\ ret = Pending
    /\ ret' = Ok(guess_response_size(call.arg[1], call.arg[2]))
    /\ UNCHANGED << call, backoff_vars, rtu_vars, conn_vars, actor_vars, relay_vars >>

CallReadFrame ==
    /\ call.op = "read_frame"
    /\ ret = Pending
    /\ ret' = read_frame(call.arg)
    /\ UNCHANGED << call, backoff_vars, rtu_vars, conn_vars, actor_vars, relay_vars >>

NextCodec == CallCalcCrc16 \/ CallGuessResponseSize \/ CallReadFrame

SpecCodec == InitCodec /\ [][NextCodec]_vars

(***************************************************************************)
(* rtu_transport.rs: RtuTransport::transaction, called by process_request. *)
(* The build has the "rts" feature.  Time is not measured: whether a       *)
(* deadline or the inter-byte silence has elapsed is a choice.             *)
(***************************************************************************)
MAX_TIMEOUTS == 3

\* The bound on the requests one caller submits.
MaxRequests == 1

Callers == DOMAIN pc

\* config/types/rts_type.rs: RtsType::to_signal_level.
to_signal_level(rts_type, is_transmitting) ==
    CASE rts_type = "none" -> FALSE
      [] rts_type = "up"   -> is_transmitting
      [] rts_type = "down" -> ~is_transmitting

\* A length check that also rejects a request of max_frame_size bytes.
transaction_enter_inclusive(request) ==
    IF Len(request) >= config.max_frame_size THEN Err("TooLong")
    ELSE IF Len(request) < 2 THEN Err("InvalidFormat")
    ELSE
      LET function == request[2]
      IN  IF function \in {3, 4}
          THEN IF Len(request) < 6 THEN Err("InvalidFormat")
               ELSE Ok(guess_response_size(function,
                                           from_be_bytes(request[5], request[6])))
          ELSE Ok(guess_response_size(function, 1))

\* The part of transaction before its timeout future: the length check and
\* the transport's own estimate of the response size (quantity read from
\* the request only for 0x03 and 0x04, else 1).
transaction_enter(request) ==
    IF Len(request) > config.max_frame_size THEN Err("TooLong")
    ELSE IF Len(request) < 2 THEN Err("InvalidFormat")
    ELSE
      LET function == request[2]
      IN  IF function \in {3, 4}
          THEN IF Len(request) < 6 THEN Err("InvalidFormat")
               ELSE Ok(guess_response_size(function,
                                           from_be_bytes(request[5], request[6])))
          ELSE Ok(guess_response_size(function, 1))

\* The locals of process_request and transaction for request r: the RTU
\* request, the length of the buffer handed to transaction and the size the
\* read loop waits for.
transaction_locals(r) ==
    LET request == build_rtu_request(r.unit_id, r.pdu)
        size == bridge_response_size(r)
        enter == transaction_enter(request)
    IN  [request |-> request,
         response_len |-> IF size.ok THEN size.val ELSE 0,
         expected_size |-> IF enter.ok THEN enter.val ELSE 0]

NoTransaction == [request |-> << >>, response_len |-> 0, expected_size |-> 0]

LineOp(h, op, bytes) == [by |-> h, op |-> op, bytes |-> bytes]

\* transaction returns txr to process_request, which returns at once: the
\* MutexGuard of the port, if held, is dropped on the way.
EndTransaction(h, txr) ==
    /\ txres' = [txres EXCEPT ![h] = txr]
    /\ result' = [result EXCEPT ![h] = after_transaction(req[h], txr)]
    /\ pc' = [pc EXCEPT ![h] = "done"]
    /\ port_lock' = IF port_lock = h THEN 0 ELSE port_lock

\* What may come back after a request has been written.  Any unit may stay
\* silent or give the regular answer; the line to unit 0x11 may also carry
\* an exception frame, an answer with a wrong CRC, the answer of another
\* unit, or a 4-byte frame.
FaultyUnit == ReadHoldingBody[1]
DeviceData == << 2, 43, 0, 0, 0, 100 >>
DeviceDataBytes(n) == [i \in 1 .. n |-> DeviceData[((i - 1) % 6) + 1]]
WithCrc(body) == body \o to_le_bytes(calc_crc16(body))

RegularReplies(r) ==
    LET f == function_code_of(r.pdu)
        q == IF Len(r.pdu) >= 5 THEN from_be_bytes(r.pdu[4], r.pdu[5]) ELSE 0
    IN  CASE f \in {1, 2} /\ q \in 1 .. 2000 ->
               { WithCrc(<< r.unit_id, f, div_ceil(q, 8) >>
                           \o DeviceDataBytes(div_ceil(q, 8))) }
          [] f \in {3, 4} /\ q \in 1 .. 125 ->
               { WithCrc(<< r.unit_id, f, 2 * q >> \o DeviceDataBytes(2 * q)) }
          [] f \in {5, 6, 15, 16} /\ Len(r.pdu) >= 5 ->
               { WithCrc(<< r.unit_id >> \o SubSeq(r.pdu, 1, 5)) }
          [] OTHER -> {}

DeviceReplies(r) ==
    LET f == function_code_of(r.pdu)
    IN  { << >> } \cup RegularReplies(r)
          \cup IF r.unit_id = FaultyUnit
               THEN { WithCrc(<< r.unit_id, Or0x80(f), 2 >>),
                      << r.unit_id, f, 2, 0, 1, 0, 0 >>,
                      WithCrc(<< (r.unit_id + 1) % 256, f, 2, 0, 1 >>),
                      WithCrc(<< r.unit_id, f >>) }
               ELSE {}

\* process_request up to the call of transaction, and transaction up to its
\* timeout future.  The trace of the RTU request slices &pdu[1..], which
\* panics on an empty PDU.
BeginRequest(h, r) ==
    /\ pc[h] \in {"idle", "done"}
    /\ served[h] < MaxRequests
    /\ served' = [served EXCEPT ![h] = @ + 1]
    /\ req' = [req EXCEPT ![h] = r]
    /\ tx' = [tx EXCEPT ![h] = transaction_locals(r)]
    /\ rbuf' = [rbuf EXCEPT ![h] = << >>]
    /\ consecutive_timeouts' = [consecutive_timeouts EXCEPT ![h] = 0]
    /\ reply' = [reply EXCEPT ![h] = << >>]
    /\ LET size == bridge_response_size(r)
           enter == transaction_enter(build_rtu_request(r.unit_id, r.pdu))
       IN  IF config.trace_frames /\ Len(r.pdu) = 0
           THEN /\ pc' = [pc EXCEPT ![h] = "panicked"]
                /\ txres' = [txres EXCEPT ![h] = Pending]
                /\ result' = [result EXCEPT ![h] = Pending]
           ELSE IF ~size.ok
           THEN /\ pc' = [pc EXCEPT ![h] = "done"]
                /\ txres' = [txres EXCEPT ![h] = Pending]
                /\ result' = [result EXCEPT ![h] = size]
           ELSE IF ~enter.ok
           THEN /\ pc' = [pc EXCEPT ![h] = "done"]
                /\ txres' = [txres EXCEPT ![h] = enter]
                /\ result' = [result EXCEPT ![h] = after_transaction(r, enter)]
           ELSE /\ pc' = [pc EXCEPT ![h] = "lock_wait"]
                /\ txres' = [txres EXCEPT ![h] = Pending]
                /\ result' = [result EXCEPT ![h] = Pending]
    /\ UNCHANGED << codec_vars, backoff_vars, actor_vars, relay_vars, conn_vars, config, workload, line_vars >>

\* A lock that is granted whoever holds it.
LockPort_ungated(h) ==
    /\ pc[h] = "lock_wait"
    /\ port_lock' = h
    /\ ops' = << >>
    /\ pc' = [pc EXCEPT ![h] = "tx_setup"]
    /\ UNCHANGED << codec_vars, backoff_vars, actor_vars, relay_vars, conn_vars, config, workload, req, tx, rbuf,
                    consecutive_timeouts, txres, result, served, reply, rts,
                    rx_buf, dev_out >>

\* self.port.lock().await
LockPort(h) ==
    /\ pc[h] = "lock_wait"
    /\ port_lock = 0
    /\ port_lock' = h
    /\ ops' = << >>
    /\ pc' = [pc EXCEPT ![h] = "tx_setup"]
    /\ UNCHANGED << codec_vars, backoff_vars, actor_vars, relay_vars, conn_vars, config, workload, req, tx, rbuf,
                    consecutive_timeouts, txres, result, served, reply, rts,
                    rx_buf, dev_out >>

\* set_rts(to_signal_level(true))?, then the sleep when rts_delay_us > 0.
\* The ioctl may fail, which leaves the line as it is.
SetRtsTx(h) ==
    /\ pc[h] = "tx_setup"
    /\ \/ LET level == to_signal_level(config.rts_type, TRUE)
          IN  /\ rts' = level
              /\ ops' = Append(ops, LineOp(h, IF level THEN "rts_high"
                                              ELSE "rts_low", << >>))
              /\ pc' = [pc EXCEPT ![h] = IF config.rts_delay_us > 0
                                         THEN "tx_delay" ELSE "writing"]
              /\ UNCHANGED << txres, result, port_lock >>
       \/ /\ EndTransaction(h, Err("Rts"))
          /\ UNCHANGED << rts, ops >>
    /\ UNCHANGED << codec_vars, backoff_vars, actor_vars, relay_vars, conn_vars, config, workload, req, tx, rbuf,
                    consecutive_timeouts, served, reply, rx_buf, dev_out >>

\* The end of a tokio::time::sleep, before the write or before the read.
SleepDone(h) ==
    /\ pc[h] \in {"tx_delay", "rx_delay"}
    /\ pc' = [pc EXCEPT ![h] = IF pc[h] = "tx_delay" THEN "writing"
                               ELSE "reading"]
    /\ UNCHANGED << codec_vars, backoff_vars, actor_vars, relay_vars, conn_vars, config, workload, req, tx, rbuf,
                    consecutive_timeouts, txres, result, served, reply,
                    line_vars >>

\* port.write_all(request)?, port.flush()?.  Bytes of an earlier exchange
\* that were still on their way may have arrived by now; the device answers
\* what was written, after the line has been turned round.
WriteRequest(h) ==
    /\ pc[h] = "writing"
    /\ \/ \E j \in 0 .. Len(dev_out), d \in DeviceReplies(req[h]),
             flushed \in BOOLEAN :
            /\ rx_buf' = rx_buf \o SubSeq(dev_out, 1, j)
            /\ dev_out' = SubSeq(dev_out, j + 1, Len(dev_out)) \o d
            /\ reply' = [reply EXCEPT ![h] = d]
            /\ IF flushed
               THEN /\ ops' = ops \o << LineOp(h, "write", tx[h].request),
                                        LineOp(h, "flush", << >>) >>
                    /\ pc' = [pc EXCEPT ![h] = "tx_to_rx"]
                    /\ UNCHANGED << txres, result, port_lock >>
               ELSE /\ ops' = Append(ops, LineOp(h, "write", tx[h].request))
                    /\ EndTransaction(h, Err("Io"))
       \/ /\ EndTransaction(h, Err("Io"))
          /\ UNCHANGED << ops, rx_buf, dev_out, reply >>
    /\ UNCHANGED << codec_vars, backoff_vars, actor_vars, relay_vars, conn_vars, config, workload, req, tx, rbuf,
                    consecutive_timeouts, served, rts >>

\* A transaction that never drains the buffers.
AfterTurn_undrained(from) ==
    IF config.rts_delay_us > 0 THEN "rx_delay"
    ELSE "reading"

\* Where the transaction goes after the line has been turned round.
AfterTurn(from) ==
    IF from = "tx_to_rx" /\ config.flush_after_write THEN "tc_flush"
    ELSE IF config.rts_delay_us > 0 THEN "rx_delay"
    ELSE "reading"

\* set_rts(to_signal_level(false))?
SetRtsRx(h) ==
    /\ pc[h] = "tx_to_rx"
    /\ \/ LET level == to_signal_level(config.rts_type, FALSE)
          IN  /\ rts' = level
              /\ ops' = Append(ops, LineOp(h, IF level THEN "rts_high"
                                              ELSE "rts_low", << >>))
              /\ pc' = [pc EXCEPT ![h] = AfterTurn("tx_to_rx")]
              /\ UNCHANGED << txres, result, port_lock >>
       \/ /\ EndTransaction(h, Err("Rts"))
          /\ UNCHANGED << rts, ops >>
    /\ UNCHANGED << codec_vars, backoff_vars, actor_vars, relay_vars, conn_vars, config, workload, req, tx, rbuf,
                    consecutive_timeouts, served, reply, rx_buf, dev_out >>

\* self.tc_flush()?: tcflush(fd, TCIOFLUSH) discards what has been received.
TcFlush(h) ==
    /\ pc[h] = "tc_flush"
    /\ \/ /\ rx_buf' = << >>
          /\ ops' = Append(ops, LineOp(h, "tc_flush", << >>))
          /\ pc' = [pc EXCEPT ![h] = AfterTurn("tc_flush")]
          /\ UNCHANGED << txres, result, port_lock >>
       \/ /\ EndTransaction(h, Err("Io"))
          /\ UNCHANGED << rx_buf, ops >>
    /\ UNCHANGED << codec_vars, backoff_vars, actor_vars, relay_vars, conn_vars, config, workload, req, tx, rbuf,
                    consecutive_timeouts, served, reply, rts, dev_out >>

Min(a, b) == IF a < b THEN a ELSE b

\* A read loop that takes fewer than 3 bytes for no response.
finish_read_short(bytes) ==
    IF Len(bytes) < 3 THEN Err("NoResponse")
    ELSE Ok(bytes)

\* The code after the read loop.
finish_read(bytes) ==
    IF Len(bytes) = 0 THEN Err("NoResponse")
    ELSE IF Len(bytes) < 3 THEN Err("Io")
    ELSE Ok(bytes)

\* One iteration of the read loop: port.read(&mut response[total_bytes..])
\* and the match on its result.  j more bytes have arrived by now; silent
\* says whether 100 ms have passed since the last byte was read.
ReadStep(h) ==
    /\ pc[h] = "reading"
    /\ \/ \E j \in 0 .. Len(dev_out), silent \in BOOLEAN :
            LET avail == rx_buf \o SubSeq(dev_out, 1, j)
                total_bytes == Len(rbuf[h])
                n == Min(Len(avail), tx[h].response_len - total_bytes)
                read == rbuf[h] \o SubSeq(avail, 1, n)
                timeouts == consecutive_timeouts[h] + 1
            IN  /\ rx_buf' = SubSeq(avail, n + 1, Len(avail))
                /\ dev_out' = SubSeq(dev_out, j + 1, Len(dev_out))
                /\ rbuf' = [rbuf EXCEPT ![h] = read]
                /\ IF n > 0
                   THEN \* Ok(n)
                        /\ consecutive_timeouts' =
                             [consecutive_timeouts EXCEPT ![h] = 0]
                        /\ IF Len(read) >= tx[h].expected_size
                           THEN EndTransaction(h, finish_read(read))
                           ELSE UNCHANGED << pc, txres, result, port_lock >>
                   ELSE IF total_bytes > 0 /\ silent
                   THEN \* Ok(0) or TimedOut, inter-byte timeout reached
                        /\ EndTransaction(h, finish_read(read))
                        /\ UNCHANGED consecutive_timeouts
                   ELSE IF tx[h].response_len = total_bytes
                   THEN \* Ok(0): the buffer is full
                        /\ pc' = [pc EXCEPT ![h] = "read_yield"]
                        /\ UNCHANGED << consecutive_timeouts, txres, result,
                                        port_lock >>
                   ELSE \* Err(TimedOut)
                        /\ consecutive_timeouts' =
                             [consecutive_timeouts EXCEPT ![h] = timeouts]
                        /\ IF timeouts >= MAX_TIMEOUTS
                           THEN EndTransaction(h, finish_read(read))
                           ELSE /\ pc' = [pc EXCEPT ![h] = "read_yield"]
                                /\ UNCHANGED << txres, result, port_lock >>
       \/ \* Err(e) of another kind
          /\ EndTransaction(h, Err("Io"))
          /\ UNCHANGED << rbuf, consecutive_timeouts, rx_buf, dev_out >>
    /\ UNCHANGED << codec_vars, backoff_vars, actor_vars, relay_vars, conn_vars, config, workload, req, tx, served, reply,
                    rts, ops >>

\* The task is polled again after tokio::task::yield_now().await.
ReadResume(h) ==
    /\ pc[h] = "read_yield"
    /\ pc' = [pc EXCEPT ![h] = "reading"]
    /\ UNCHANGED << codec_vars, backoff_vars, actor_vars, relay_vars, conn_vars, config, workload, req, tx, rbuf,
                    consecutive_timeouts, txres, result, served, reply,
                    line_vars >>

\* tokio::time::timeout fires: the inner future is dropped at the await it
\* is suspended in (the lock, a sleep or a yield).
TransactionTimeout(h) ==
    /\ pc[h] \in {"lock_wait", "tx_delay", "rx_delay", "read_yield"}
    /\ EndTransaction(h, Err("Timeout"))
    /\ UNCHANGED << codec_vars, backoff_vars, actor_vars, relay_vars, conn_vars, config, workload, req, tx, rbuf,
                    consecutive_timeouts, served, reply, rts, ops, rx_buf,
                    dev_out >>

Step(h) ==
    \/ \E r \in workload : BeginRequest(h, r)
    \/ LockPort(h)
    \/ SetRtsTx(h)
    \/ SleepDone(h)
    \/ WriteRequest(h)
    \/ SetRtsRx(h)
    \/ TcFlush(h)
    \/ ReadStep(h)
    \/ ReadResume(h)
    \/ TransactionTimeout(h)

NextRtu == \E h \in Callers : Step(h)

\* The callers start idle on a quiet line.
InitCallers(callers) ==
    /\ pc = [h \in callers |-> "idle"]
    /\ req = [h \in callers |-> [transaction_id |-> << 0, 0 >>, unit_id |-> 0,
                                 pdu |-> << >>]]
    /\ tx = [h \in callers |-> NoTransaction]
    /\ rbuf = [h \in callers |-> << >>]
    /\ consecutive_timeouts = [h \in callers |-> 0]
    /\ txres = [h \in callers |-> Pending]
    /\ result = [h \in callers |-> Pending]
    /\ served = [h \in callers |-> 0]
    /\ reply = [h \in callers |-> << >>]
    /\ port_lock = 0
    /\ rts = FALSE
    /\ ops = << >>
    /\ rx_buf = << >>
    /\ dev_out = << >>

Request(unit_id, pdu) ==
    [transaction_id |-> << 0, 1 >>, unit_id |-> unit_id, pdu |-> pdu]

\* 00 01 00 00 00 06 11 03 00 6B 00 03 as read_frame and handle_frame pass it.
ReadHoldingTcp == << 0, 1, 0, 0, 0, 6 >> \o ReadHoldingBody
ReadHoldingRequest == process_frame_args(ReadHoldingTcp, << 0, 1 >>)
\* Read 16 coils from 0x0013 of unit 0x11.
ReadCoilsRequest == Request(17, << 1, 0, 19, 0, 16 >>)
\* Write register 1 of unit 0x11.
WriteSingleRequest == Request(17, << 6, 0, 1, 0, 3 >>)
\* Write two registers: an RTU request of 13 bytes.
WriteMultipleRequest == Request(17, << 16, 0, 1, 0, 2, 4, 0, 10, 1, 2 >>)
\* PDUs without a complete quantity field, and no PDU at all.
ShortPduRequests ==
    { Request(17, << 3 >>), Request(17, << 3, 0, 0 >>), Request(17, << >>) }

DefaultConfig ==
    [rts_type |-> "down", rts_delay_us |-> 3500, flush_after_write |-> TRUE,
     max_frame_size |-> 256, trace_frames |-> FALSE]

\* One client handler, every kind of request, a range of configurations.
BridgeConfigs ==
    { DefaultConfig,
      [DefaultConfig EXCEPT !.max_frame_size = 12],
      [DefaultConfig EXCEPT !.max_frame_size = 8],
      [DefaultConfig EXCEPT !.trace_frames = TRUE],
      [DefaultConfig EXCEPT !.flush_after_write = FALSE, !.rts_delay_us = 0],
      [DefaultConfig EXCEPT !.rts_type = "none", !.rts_delay_us = 0] }

BridgeRequests ==
    { ReadHoldingRequest, ReadCoilsRequest, WriteSingleRequest,
      WriteMultipleRequest } \cup ShortPduRequests

InitBridge ==
    /\ CodecUnused
    /\ BackoffUnused
    /\ ConnUnused
    /\ ActorUnused
    /\ RelayUnused
    /\ config \in BridgeConfigs
    /\ workload = BridgeRequests
    /\ InitCallers({1})

SpecBridge == InitBridge /\ [][NextRtu]_vars

\* Several client handlers sharing the transport.
NumClients == 2

RtuConfigs ==
    { DefaultConfig,
      [DefaultConfig EXCEPT !.rts_type = "up", !.flush_after_write = FALSE] }

InitRtu ==
    /\ CodecUnused
    /\ BackoffUnused
    /\ ConnUnused
    /\ ActorUnused
    /\ RelayUnused
    /\ config \in RtuConfigs
    /\ workload = { Request(1, << 6, 0, 1, 0, 3 >>) }
    /\ InitCallers(1 .. NumClients)

SpecRtu == InitRtu /\ [][NextRtu]_vars

\* Two client handlers that write different registers of unit 1, so that
\* the answer to one request differs from the answer to the other.
WriteOneRequest == Request(1, << 6, 0, 1, 0, 3 >>)
WriteTwoRequest == Request(1, << 6, 0, 2, 0, 5 >>)

InitStale ==
    /\ CodecUnused
    /\ BackoffUnused
    /\ ConnUnused
    /\ ActorUnused
    /\ RelayUnused
    /\ config \in RtuConfigs
    /\ workload = { WriteOneRequest, WriteTwoRequest }
    /\ InitCallers(1 .. NumClients)

SpecStale == InitStale /\ [][NextRtu]_vars

(***************************************************************************)
(* connection/manager.rs, connection/guard.rs and handle_client of         *)
(* modbus_relay.rs: admission of client connections.  The tasks run on a   *)
(* multi-thread runtime, so the steps of different tasks interleave also   *)
(* where a task does not await.                                            *)
(***************************************************************************)
Handlers == DOMAIN conn

Put(f, a, v) == [x \in DOMAIN f \cup {a} |-> IF x = a THEN v ELSE f[x]]
Remove(f, a) == [x \in DOMAIN f \ {a} |-> f[x]]

\* semaphores.entry(addr).or_insert_with(|| Semaphore::new(per_ip_limit))
per_ip_semaphore(addr, per_ip_limit) ==
    IF addr \in DOMAIN per_ip_semaphores THEN per_ip_semaphores[addr]
    ELSE per_ip_limit

\* A drop that forgets the global permit.
release_global_forgotten(h) == global_semaphore

\* The drop of the permits a connection holds: each goes back to its
\* semaphore.
release_global(h) ==
    IF conn[h].global_permit THEN global_semaphore + 1 ELSE global_semaphore

\* A drop that forgets the per-IP permit.
release_per_ip_forgotten(h) == per_ip_semaphores

release_per_ip(h) ==
    IF conn[h].per_ip_permit
    THEN Put(per_ip_semaphores, conn[h].addr,
             per_ip_semaphores[conn[h].addr] + 1)
    ELSE per_ip_semaphores

\* A per-IP acquisition that tests the semaphore and gives the permit back
\* at once.
AcceptPerIp_unheld(h) ==
    /\ conn[h].pc = "new"
    /\ IF conn_config.per_ip_limits = {}
       THEN /\ conn' = [conn EXCEPT ![h].pc = "acc_global"]
            /\ UNCHANGED per_ip_semaphores
       ELSE \E per_ip_limit \in conn_config.per_ip_limits :
              LET permits == per_ip_semaphore(conn[h].addr, per_ip_limit)
              IN  /\ per_ip_semaphores' =
                       Put(per_ip_semaphores, conn[h].addr, permits)
                  /\ IF permits > 0
                     THEN conn' = [conn EXCEPT ![h].pc = "acc_global"]
                     ELSE conn' = [conn EXCEPT ![h].pc = "rejected",
                                               ![h].err = "LimitExceeded",
                                               ![h].scope = "per_ip"]
    /\ UNCHANGED << codec_vars, backoff_vars, actor_vars, relay_vars, rtu_vars, conn_config, global_semaphore, stats,
                    stats_lock, total_connections, stats_chan, cleanup >>

\* accept_connection, the per-IP limit: try_acquire_owned on the semaphore
\* of the address, created on first use; no semaphore when per_ip_limits is
\* None.
AcceptPerIp(h) ==
    /\ conn[h].pc = "new"
    /\ IF conn_config.per_ip_limits = {}
       THEN /\ conn' = [conn EXCEPT ![h].pc = "acc_global"]
            /\ UNCHANGED per_ip_semaphores
       ELSE \E per_ip_limit \in conn_config.per_ip_limits :
              LET permits == per_ip_semaphore(conn[h].addr, per_ip_limit)
              IN  IF permits > 0
                  THEN /\ per_ip_semaphores' =
                            Put(per_ip_semaphores, conn[h].addr, permits - 1)
                       /\ conn' = [conn EXCEPT ![h].pc = "acc_global",
                                               ![h].per_ip_permit = TRUE]
                  ELSE /\ per_ip_semaphores' =
                            Put(per_ip_semaphores, conn[h].addr, permits)
                       /\ conn' = [conn EXCEPT ![h].pc = "rejected",
                                               ![h].err = "LimitExceeded",
                                               ![h].scope = "per_ip"]
    /\ UNCHANGED << codec_vars, backoff_vars, actor_vars, relay_vars, rtu_vars, conn_config, global_semaphore, stats,
                    stats_lock, total_connections, stats_chan, cleanup >>

\* An accept that keeps the per-IP permit when the global limit turns it
\* away.
AcceptGlobal_kept(h) ==
    /\ conn[h].pc = "acc_global"
    /\ IF global_semaphore > 0
       THEN /\ global_semaphore' = global_semaphore - 1
            /\ conn' = [conn EXCEPT ![h].pc = "acc_stats",
                                    ![h].global_permit = TRUE]
            /\ UNCHANGED per_ip_semaphores
       ELSE /\ per_ip_semaphores' = per_ip_semaphores
            /\ conn' = [conn EXCEPT ![h].pc = "rejected",
                                    ![h].per_ip_permit = FALSE,
                                    ![h].err = "LimitExceeded",
                                    ![h].scope = "global"]
            /\ UNCHANGED global_semaphore
    /\ UNCHANGED << codec_vars, backoff_vars, actor_vars, relay_vars, rtu_vars, conn_config, stats, stats_lock,
                    total_connections, stats_chan, cleanup >>

\* An accept that reports the global limit as the per-IP limit.
AcceptGlobal_per_ip_error(h) ==
    /\ conn[h].pc = "acc_global"
    /\ IF global_semaphore > 0
       THEN /\ global_semaphore' = global_semaphore - 1
            /\ conn' = [conn EXCEPT ![h].pc = "acc_stats",
                                    ![h].global_permit = TRUE]
            /\ UNCHANGED per_ip_semaphores
       ELSE /\ per_ip_semaphores' = release_per_ip(h)
            /\ conn' = [conn EXCEPT ![h].pc = "rejected",
                                    ![h].per_ip_permit = FALSE,
                                    ![h].err = "LimitExceeded",
                                    ![h].scope = "per_ip"]
            /\ UNCHANGED global_semaphore
    /\ UNCHANGED << codec_vars, backoff_vars, actor_vars, relay_vars, rtu_vars, conn_config, stats, stats_lock,
                    total_connections, stats_chan, cleanup >>

\* accept_connection, the global limit: try_acquire_owned; on failure the
\* `?` drops the per-IP permit.
AcceptGlobal(h) ==
    /\ conn[h].pc = "acc_global"
    /\ IF global_semaphore > 0
       THEN /\ global_semaphore' = global_semaphore - 1
            /\ conn' = [conn EXCEPT ![h].pc = "acc_stats",
                                    ![h].global_permit = TRUE]
            /\ UNCHANGED per_ip_semaphores
       ELSE /\ per_ip_semaphores' = release_per_ip(h)
            /\ conn' = [conn EXCEPT ![h].pc = "rejected",
                                    ![h].per_ip_permit = FALSE,
                                    ![h].err = "LimitExceeded",
                                    ![h].scope = "global"]
            /\ UNCHANGED global_semaphore
    /\ UNCHANGED << codec_vars, backoff_vars, actor_vars, relay_vars, rtu_vars, conn_config, stats, stats_lock,
                    total_connections, stats_chan, cleanup >>

\* accept_connection: self.stats.lock().await
AcceptLockStats(h) ==
    /\ conn[h].pc = "acc_stats"
    /\ stats_lock = "free"
    /\ stats_lock' = "accept"
    /\ conn' = [conn EXCEPT ![h].pc = "acc_count"]
    /\ UNCHANGED << codec_vars, backoff_vars, actor_vars, relay_vars, rtu_vars, conn_config, global_semaphore,
                    per_ip_semaphores, stats, total_connections, stats_chan,
                    cleanup >>

\* accept_connection under the stats lock: the entry of the address is
\* created if absent, active_connections += 1, last_active = now; then
\* total_connections.fetch_add(1) and the guard is returned to
\* handle_client.  (active_connections cannot be usize::MAX: every unit of
\* it was added by one of fewer than 2^64 calls.)
AcceptCount(h) ==
    /\ conn[h].pc = "acc_count"
    /\ LET addr == conn[h].addr
           active == IF addr \in DOMAIN stats
                     THEN stats[addr].active_connections ELSE 0
       IN  stats' = Put(stats, addr, [active_connections |-> active + 1,
                                      idle |-> FALSE])
    /\ stats_lock' = "free"
    /\ total_connections' = total_connections + 1
    /\ conn' = [conn EXCEPT ![h].pc = "serving", ![h].guard = TRUE]
    /\ cleanup' = [cleanup EXCEPT !.quiet = @ \ { conn[h].addr }]
    /\ UNCHANGED << codec_vars, backoff_vars, actor_vars, relay_vars, rtu_vars, conn_config, global_semaphore,
                    per_ip_semaphores, stats_chan >>

\* The bound on the StatEvents in the channel (mpsc::channel(capacity)).
StatsChanCap == 2

\* stats_tx.try_send(event): the event is dropped when the channel is full.
try_send(event) ==
    IF Len(stats_chan) < StatsChanCap THEN Append(stats_chan, event)
    ELSE stats_chan

\* Manager::decrease_connection_count, called by the drop of the guard:
\* with a try-lock on the stats, the counter of the address is decremented
\* and the entry removed when it reaches zero; nothing is done when the lock
\* is taken or the address has no entry.
decrease_connection_count(addr) ==
    IF stats_lock = "free" /\ addr \in DOMAIN stats
    THEN IF stats[addr].active_connections <= 1
         THEN Remove(stats, addr)
         ELSE Put(stats, addr,
                  [stats[addr] EXCEPT !.active_connections = @ - 1])
    ELSE stats

\* Whether that call decrements the counter.
decreases(addr) == stats_lock = "free" /\ addr \in DOMAIN stats

\* How handle_client ends once it holds the guard: Ok(false) of
\* handle_frame (the client disconnected), an Err of peer_addr or of
\* handle_frame (frame or protocol error, write error, write timeout), the
\* shutdown signal, or the drop of the task's future.
ExitPaths == { "disconnect", "error", "shutdown", "cancelled" }

\* handle_client returns or is dropped: _guard is dropped, which sends
\* ClientDisconnected, calls decrease_connection_count and then drops the
\* two permits.
ExitClient(h, why) ==
    /\ conn[h].pc = "serving"
    /\ stats_chan' = try_send([kind |-> "ClientDisconnected",
                               addr |-> conn[h].addr])
    /\ stats' = decrease_connection_count(conn[h].addr)
    /\ global_semaphore' = release_global(h)
    /\ per_ip_semaphores' = release_per_ip(h)
    /\ conn' = [conn EXCEPT
                  ![h].pc = "closed",
                  ![h].exit = why,
                  ![h].guard = FALSE,
                  ![h].global_permit = FALSE,
                  ![h].per_ip_permit = FALSE,
                  ![h].decrements =
                     IF decreases(conn[h].addr) THEN @ + 1 ELSE @]
    /\ UNCHANGED << codec_vars, backoff_vars, actor_vars, relay_vars, rtu_vars, conn_config, stats_lock,
                    total_connections, cleanup >>

\* The task is dropped while accept_connection awaits a mutex: the permits
\* it has taken so far are dropped with the future.
CancelAccept(h) ==
    /\ conn[h].pc \in {"new", "acc_stats"}
    /\ global_semaphore' = release_global(h)
    /\ per_ip_semaphores' = release_per_ip(h)
    /\ conn' = [conn EXCEPT ![h].pc = "closed",
                            ![h].exit = "dropped_in_accept",
                            ![h].global_permit = FALSE,
                            ![h].per_ip_permit = FALSE]
    /\ UNCHANGED << codec_vars, backoff_vars, actor_vars, relay_vars, rtu_vars, conn_config, stats, stats_lock,
                    total_connections, stats_chan, cleanup >>

\* Time passes: now - last_active of an entry reaches idle_timeout.
BecomeIdle(addr) ==
    /\ addr \in DOMAIN stats
    /\ ~stats[addr].idle
    /\ stats' = Put(stats, addr, [stats[addr] EXCEPT !.idle = TRUE])
    /\ UNCHANGED << codec_vars, backoff_vars, actor_vars, relay_vars, rtu_vars, conn_config, conn, global_semaphore,
                    per_ip_semaphores, stats_lock, total_connections,
                    stats_chan, cleanup >>

\* should_cleanup_connection; no caller in the relay raises error_count.
should_cleanup_connection(client_stats) == client_stats.idle

\* cleanup_idle_connections, first pass: under the lock, the addresses to
\* clean are collected.  cleanup.quiet keeps, for the properties, the
\* addresses that were idle at this call and have not been accepted since.
CleanupCollect ==
    /\ cleanup.pc = "wait"
    /\ stats_lock = "free"
    /\ LET idle == { a \in DOMAIN stats :
                       should_cleanup_connection(stats[a]) }
       IN  cleanup' = [pc |-> "clean", to_clean |-> idle, quiet |-> idle]
    /\ UNCHANGED << codec_vars, backoff_vars, actor_vars, relay_vars, rtu_vars, conn_config, conn, global_semaphore,
                    per_ip_semaphores, stats, stats_lock, total_connections,
                    stats_chan >>

\* A second pass that spares the entries with a counted connection.
CleanupRemove_spared(addr) ==
    /\ cleanup.pc = "clean"
    /\ addr \in cleanup.to_clean
    /\ stats_lock = "free"
    /\ stats' = IF addr \in DOMAIN stats
                   /\ stats[addr].active_connections > 0
                THEN stats ELSE Remove(stats, addr)
    /\ cleanup' = [cleanup EXCEPT !.to_clean = @ \ {addr}]
    /\ UNCHANGED << codec_vars, backoff_vars, actor_vars, relay_vars, rtu_vars, conn_config, conn, global_semaphore,
                    per_ip_semaphores, stats_lock, total_connections,
                    stats_chan >>

\* Second pass, one iteration: the lock is taken again, the condition is
\* checked on the snapshot of the first pass, and the entry is removed
\* whatever its active_connections.
CleanupRemove(addr) ==
    /\ cleanup.pc = "clean"
    /\ addr \in cleanup.to_clean
    /\ stats_lock = "free"
    /\ stats' = Remove(stats, addr)
    /\ cleanup' = [cleanup EXCEPT !.to_clean = @ \ {addr}]
    /\ UNCHANGED << codec_vars, backoff_vars, actor_vars, relay_vars, rtu_vars, conn_config, conn, global_semaphore,
                    per_ip_semaphores, stats_lock, total_connections,
                    stats_chan >>

\* cleanup_idle_connections returns Ok(()).
CleanupReturn ==
    /\ cleanup.pc = "clean"
    /\ cleanup.to_clean = {}
    /\ cleanup' = [cleanup EXCEPT !.pc = "wait"]
    /\ UNCHANGED << codec_vars, backoff_vars, actor_vars, relay_vars, rtu_vars, conn_config, conn, global_semaphore,
                    per_ip_semaphores, stats, stats_lock, total_connections,
                    stats_chan >>

\* The stats actor receives an event.  No ClientConnected is sent by this
\* manager, so the actor has no entry a ClientDisconnected could change.
StatsActorRecv ==
    /\ stats_chan # << >>
    /\ stats_chan' = Tail(stats_chan)
    /\ UNCHANGED << codec_vars, backoff_vars, actor_vars, relay_vars, rtu_vars, conn_config, conn, global_semaphore,
                    per_ip_semaphores, stats, stats_lock, total_connections,
                    cleanup >>

Addrs == { "127.0.0.1:1234", "127.0.0.1:1235" }

NextConn ==
    \/ \E h \in Handlers :
         \/ AcceptPerIp(h)
         \/ AcceptGlobal(h)
         \/ AcceptLockStats(h)
         \/ AcceptCount(h)
         \/ \E why \in ExitPaths : ExitClient(h, why)
         \/ CancelAccept(h)
    \/ \E addr \in Addrs : BecomeIdle(addr) \/ CleanupRemove(addr)
    \/ CleanupCollect
    \/ CleanupReturn
    \/ StatsActorRecv

\* The bound on the client connections.
NumHandlers == 3
\* The largest max_connections.
MaxConnections == 2

\* ConnectionConfig::validate: max_connections > 0 and, when set,
\* 0 < per_ip_limits <= max_connections.
ConnConfigs ==
    { [max_connections |-> m, per_ip_limits |-> l] :
        m \in 1 .. MaxConnections,
        l \in { {} } \cup { {k} : k \in 1 .. MaxConnections } }
      \ { c \in [max_connections : 1 .. MaxConnections,
                 per_ip_limits : { {k} : k \in 1 .. MaxConnections }] :
            \E k \in c.per_ip_limits : k > c.max_connections }

NewConnection(addr) ==
    [pc |-> "new", addr |-> addr, guard |-> FALSE, global_permit |-> FALSE,
     per_ip_permit |-> FALSE, err |-> "none", scope |-> "none",
     exit |-> "none", decrements |-> 0]

\* Manager::new, and the connections the listener will hand to handle_client.
InitConn ==
    /\ CodecUnused
    /\ BackoffUnused
    /\ RtuUnused
    /\ ActorUnused
    /\ RelayUnused
    /\ conn_config \in ConnConfigs
    /\ \E peers \in [1 .. NumHandlers -> Addrs] :
         /\ peers[1] = "127.0.0.1:1234"
         /\ conn = [h \in 1 .. NumHandlers |-> NewConnection(peers[h])]
    /\ global_semaphore = conn_config.max_connections
    /\ per_ip_semaphores = << >>
    /\ stats = << >>
    /\ stats_lock = "free"
    /\ total_connections = 0
    /\ stats_chan = << >>
    /\ cleanup = [pc |-> "wait", to_clean |-> {}, quiet |-> {}]

SpecConn == InitConn /\ [][NextConn]_vars

\* The connections of one peer, with the scheduling the runtime gives: the
\* cleanup task gets its turns, time passes, an accept that has started
\* goes on and the stats actor receives.  A client may stay connected for
\* ever.
NumPeerHandlers == 2

InitPeer ==
    /\ CodecUnused
    /\ BackoffUnused
    /\ RtuUnused
    /\ ActorUnused
    /\ RelayUnused
    /\ conn_config = [max_connections |-> NumPeerHandlers,
                      per_ip_limits |-> { NumPeerHandlers }]
    /\ conn = [h \in 1 .. NumPeerHandlers |-> NewConnection("127.0.0.1:1234")]
    /\ global_semaphore = conn_config.max_connections
    /\ per_ip_semaphores = << >>
    /\ stats = << >>
    /\ stats_lock = "free"
    /\ total_connections = 0
    /\ stats_chan = << >>
    /\ cleanup = [pc |-> "wait", to_clean |-> {}, quiet |-> {}]

FairConn ==
    /\ WF_vars(CleanupCollect)
    /\ WF_vars(\E addr \in Addrs : CleanupRemove(addr))
    /\ WF_vars(CleanupReturn)
    /\ WF_vars(\E addr \in Addrs : BecomeIdle(addr))
    /\ WF_vars(StatsActorRecv)
    /\ WF_vars(\E h \in Handlers :
                 \/ AcceptPerIp(h)
                 \/ AcceptGlobal(h)
                 \/ AcceptLockStats(h)
                 \/ AcceptCount(h))

SpecConnFair == InitPeer /\ [][NextConn]_vars /\ FairConn

(***************************************************************************)
(* stats_manager.rs: the stats actor.  Senders put StatEvents on the       *)
(* bounded channel created by StatsManager::new; StatsManager::run selects *)
(* over its shutdown watch, the channel and the cleanup tick.  Time is not *)
(* measured: that an entry has aged past a timeout is a step of its own.   *)
(***************************************************************************)
\* The bound on the events senders put on the channel.
MaxEvents == 3

\* The request durations reported by the senders.
Durations == { 0, 25 }

\* u64::saturating_add and usize::saturating_add; the ceiling is far above
\* MaxEvents.
saturating_add(a, b) == a + b
saturating_sub(a, b) == IF a > b THEN a - b ELSE 0

\* connection/stats/client.rs: Stats::default().
DefaultClientStats ==
    [active_connections |-> 0, total_requests |-> 0, total_errors |-> 0,
     idle |-> FALSE, last_error |-> "none", avg_response_time_ms |-> 0]

\* stats.entry(addr).or_default()
or_default(map, addr) ==
    IF addr \in DOMAIN map THEN map[addr] ELSE DefaultClientStats

\* The exponential moving average of RequestProcessed, ALPHA = 0.1, cast
\* back to u64: current_avg + ALPHA * (duration_ms - current_avg).
moving_average(current_avg, duration_ms) ==
    IF current_avg = 0 THEN duration_ms
    ELSE (9 * current_avg + duration_ms) \div 10

\* A RequestProcessed that counts a failure as an error only.
request_processed_split(entry, success, duration_ms) ==
    [entry EXCEPT
       !.total_requests = IF success THEN saturating_add(@, 1) ELSE @,
       !.total_errors = IF success THEN @ ELSE saturating_add(@, 1),
       !.last_error = IF success THEN @ ELSE "recent",
       !.avg_response_time_ms = moving_average(@, duration_ms),
       !.idle = FALSE]

\* The RequestProcessed arm of handle_event on the entry of the address.
request_processed(entry, success, duration_ms) ==
    [entry EXCEPT
       !.total_requests = saturating_add(@, 1),
       !.total_errors = IF success THEN @ ELSE saturating_add(@, 1),
       !.last_error = IF success THEN @ ELSE "recent",
       !.avg_response_time_ms = moving_average(@, duration_ms),
       !.idle = FALSE]

\* A ClientDisconnected that only refreshes last_active.
client_disconnected_kept(entry) ==
    [entry EXCEPT !.idle = FALSE]

\* The ClientDisconnected arm of handle_event on an entry that exists.
client_disconnected(entry) ==
    [entry EXCEPT !.active_connections = saturating_sub(@, 1),
                  !.idle = FALSE]

\* handle_event on the map: the map after the event.
handle_event(map, event) ==
    CASE event.kind = "ClientConnected" ->
           Put(map, event.addr,
               [or_default(map, event.addr) EXCEPT
                  !.active_connections = saturating_add(@, 1),
                  !.idle = FALSE])
      [] event.kind = "ClientDisconnected" ->
           IF event.addr \in DOMAIN map
           THEN Put(map, event.addr, client_disconnected(map[event.addr]))
           ELSE map
      [] event.kind = "RequestProcessed" ->
           Put(map, event.addr,
               request_processed(or_default(map, event.addr), event.success,
                                 event.duration_ms))
      [] OTHER -> map

\* connection/stats/connection.rs: Stats::from_client_stats, the sums over
\* the map (total_connections is set from the sum of active_connections).
RECURSIVE sum_over(_, _, _)
sum_over(map, addrs, field) ==
    IF addrs = {} THEN 0
    ELSE LET a == CHOOSE x \in addrs : TRUE
         IN  map[a][field] + sum_over(map, addrs \ {a}, field)

from_client_stats(map) ==
    LET total_active == sum_over(map, DOMAIN map, "active_connections")
    IN  [total_connections |-> total_active,
         active_connections |-> total_active,
         total_requests |-> sum_over(map, DOMAIN map, "total_requests"),
         total_errors |-> sum_over(map, DOMAIN map, "total_errors")]

\* A handle_event that keeps the oneshot sender of a QueryStats for an
\* address without an entry.
answer_query_kept(map, event) ==
    CASE event.kind = "QueryStats" ->
           IF event.addr \in DOMAIN map
           THEN [state |-> "replied", val |-> map[event.addr]]
           ELSE [state |-> "waiting", val |-> << >>]
      [] event.kind = "QueryConnectionStats" ->
           [state |-> "replied", val |-> from_client_stats(map)]

\* What handle_event does with the oneshot sender of a query: QueryStats
\* answers only for an address with an entry, else the sender is dropped.
answer_query(map, event) ==
    CASE event.kind = "QueryStats" ->
           IF event.addr \in DOMAIN map
           THEN [state |-> "replied", val |-> map[event.addr]]
           ELSE [state |-> "closed", val |-> << >>]
      [] event.kind = "QueryConnectionStats" ->
           [state |-> "replied", val |-> from_client_stats(map)]

IsQuery(event) == event.kind \in { "QueryStats", "QueryConnectionStats" }

\* handle_event(event).await as a step of the actor.
HandleEvent(event) ==
    /\ stats_map' = handle_event(stats_map, event)
    /\ actor' = IF event.kind = "ClientConnected"
                THEN [actor EXCEPT
                        !.total_connections = saturating_add(@, 1)]
                ELSE actor
    /\ queries' = IF IsQuery(event)
                  THEN Put(queries, event.seq, answer_query(stats_map, event))
                  ELSE queries
    /\ hist' = [hist EXCEPT !.handled = Append(@, event)]

\* A cleanup that spares the entries with a counted connection.
retained_active(map) ==
    { a \in DOMAIN map : \/ ~map[a].idle
                          \/ map[a].last_error = "recent"
                          \/ map[a].active_connections > 0 }

\* cleanup_idle_stats: retain the entries that are not idle or whose last
\* error is within error_timeout.
retained(map) ==
    { a \in DOMAIN map : ~map[a].idle \/ map[a].last_error = "recent" }

cleanup_idle_stats(map) == [a \in retained(map) |-> map[a]]

\* The manager's state, which the actor and its senders leave alone.
manager_vars == << conn_config, conn, global_semaphore, per_ip_semaphores,
                   stats, stats_lock, total_connections, cleanup >>

StatEvent(kind, addr, success, duration_ms) ==
    [kind |-> kind, addr |-> addr, success |-> success,
     duration_ms |-> duration_ms, seq |-> 0]

\* The events of connection/events.rs a sender may put on the channel.
StatEvents ==
    { StatEvent(k, a, TRUE, 0) :
        k \in { "ClientConnected", "ClientDisconnected", "QueryStats" },
        a \in Addrs }
      \cup { StatEvent("RequestProcessed", a, s, d) :
               a \in Addrs, s \in BOOLEAN, d \in Durations }
      \cup { StatEvent("QueryConnectionStats", "none", TRUE, 0) }

\* stats_tx.send(event).await returns Ok: there is room on the channel and
\* the receiver is alive.  A query keeps the receiving end of its oneshot.
SendEvent(e) ==
    /\ actor.pc # "stopped"
    /\ hist.enqueued < MaxEvents
    /\ Len(stats_chan) < StatsChanCap
    /\ LET event == [e EXCEPT !.seq = hist.enqueued + 1]
       IN  /\ stats_chan' = Append(stats_chan, event)
           /\ queries' = IF IsQuery(event)
                         THEN Put(queries, event.seq,
                                  [state |-> "waiting", val |-> << >>])
                         ELSE queries
    /\ hist' = [hist EXCEPT !.enqueued = @ + 1]
    /\ UNCHANGED << codec_vars, backoff_vars, rtu_vars, relay_vars, manager_vars, stats_map,
                    actor, stats_shutdown >>

\* stats_manager_shutdown.send(true) of ModbusRelay::shutdown.
SignalStatsShutdown ==
    /\ stats_shutdown = "open"
    /\ stats_shutdown' = "changed"
    /\ UNCHANGED << codec_vars, backoff_vars, rtu_vars, relay_vars, conn_vars, stats_map,
                    actor, queries, hist >>

\* The watch sender is dropped with no signal sent: the relay is dropped
\* after shutdown returned early, or without shutdown.
DropStatsShutdown ==
    /\ stats_shutdown = "open"
    /\ stats_shutdown' = "closed"
    /\ UNCHANGED << codec_vars, backoff_vars, rtu_vars, relay_vars, conn_vars, stats_map,
                    actor, queries, hist >>

\* Time passes: now - last_active of an entry exceeds idle_timeout.
AgeActive(addr) ==
    /\ addr \in DOMAIN stats_map
    /\ ~stats_map[addr].idle
    /\ stats_map' = [stats_map EXCEPT ![addr].idle = TRUE]
    /\ UNCHANGED << codec_vars, backoff_vars, rtu_vars, relay_vars, conn_vars, actor,
                    stats_shutdown, queries, hist >>

\* Time passes: now - last_error of an entry exceeds error_timeout.
AgeError(addr) ==
    /\ addr \in DOMAIN stats_map
    /\ stats_map[addr].last_error = "recent"
    /\ stats_map' = [stats_map EXCEPT ![addr].last_error = "old"]
    /\ UNCHANGED << codec_vars, backoff_vars, rtu_vars, relay_vars, conn_vars, actor,
                    stats_shutdown, queries, hist >>

\* run, the arm Some(event) = self.event_rx.recv().
ActorRecv ==
    /\ actor.pc = "running"
    /\ stats_chan # << >>
    /\ HandleEvent(Head(stats_chan))
    /\ stats_chan' = Tail(stats_chan)
    /\ UNCHANGED << codec_vars, backoff_vars, rtu_vars, relay_vars, manager_vars,
                    stats_shutdown >>

\* run, the arm cleanup_interval.tick().
ActorCleanup ==
    /\ actor.pc = "running"
    /\ stats_map' = cleanup_idle_stats(stats_map)
    /\ hist' = [hist EXCEPT
                  !.cleaned = @ \cup (DOMAIN stats_map \ retained(stats_map))]
    /\ UNCHANGED << codec_vars, backoff_vars, rtu_vars, relay_vars, conn_vars, actor,
                    stats_shutdown, queries >>

\* The receiver is dropped when run has returned: what is still on the
\* channel is dropped with it, which closes the oneshot of a query.
drop_receiver(q) ==
    [id \in DOMAIN q |->
       IF \E i \in DOMAIN stats_chan : stats_chan[i].seq = id
       THEN [state |-> "closed", val |-> << >>]
       ELSE q[id]]

\* run, the arm shutdown_rx.changed() with Ok: the drain loop starts.
ActorObserveShutdown ==
    /\ actor.pc = "running"
    /\ stats_shutdown = "changed"
    /\ stats_shutdown' = "seen"
    /\ actor' = [actor EXCEPT !.pc = "draining"]
    /\ hist' = [hist EXCEPT !.seen = hist.enqueued,
                            !.backlog = Len(stats_chan)]
    /\ UNCHANGED << codec_vars, backoff_vars, rtu_vars, relay_vars, conn_vars, stats_map,
                    queries >>

\* run, the arm shutdown_rx.changed() with Err: break, nothing is drained.
ActorObserveClosed ==
    /\ actor.pc = "running"
    /\ stats_shutdown = "closed"
    /\ actor' = [actor EXCEPT !.pc = "stopped", !.exit = "closed"]
    /\ queries' = drop_receiver(queries)
    /\ stats_chan' = << >>
    /\ UNCHANGED << codec_vars, backoff_vars, rtu_vars, relay_vars, manager_vars, stats_map,
                    stats_shutdown, hist >>

\* A drain that handles one event and returns.
ActorDrain_once ==
    /\ actor.pc = "draining"
    /\ IF stats_chan # << >>
       THEN /\ stats_map' = handle_event(stats_map, Head(stats_chan))
            /\ hist' = [hist EXCEPT !.handled = Append(@, Head(stats_chan))]
            /\ actor' = [actor EXCEPT !.pc = "stopped", !.exit = "signal"]
            /\ stats_chan' = << >>
            /\ queries' = drop_receiver(queries)
       ELSE /\ actor' = [actor EXCEPT !.pc = "stopped", !.exit = "signal"]
            /\ UNCHANGED << stats_map, stats_chan, queries, hist >>
    /\ UNCHANGED << codec_vars, backoff_vars, rtu_vars, relay_vars, manager_vars,
                    stats_shutdown >>

\* One turn of while let Ok(event) = self.event_rx.try_recv(): the event is
\* handled, or the channel is empty and run returns.
ActorDrain ==
    /\ actor.pc = "draining"
    /\ IF stats_chan # << >>
       THEN /\ HandleEvent(Head(stats_chan))
            /\ stats_chan' = Tail(stats_chan)
       ELSE /\ actor' = [actor EXCEPT !.pc = "stopped", !.exit = "signal"]
            /\ UNCHANGED << stats_map, stats_chan, queries, hist >>
    /\ UNCHANGED << codec_vars, backoff_vars, rtu_vars, relay_vars, manager_vars,
                    stats_shutdown >>

NextStats ==
    \/ \E e \in StatEvents : SendEvent(e)
    \/ SignalStatsShutdown
    \/ DropStatsShutdown
    \/ \E addr \in Addrs : AgeActive(addr) \/ AgeError(addr)
    \/ ActorRecv
    \/ ActorCleanup
    \/ ActorObserveShutdown
    \/ ActorObserveClosed
    \/ ActorDrain

InitStats ==
    /\ CodecUnused
    /\ BackoffUnused
    /\ RtuUnused
    /\ ConnUnused
    /\ ActorUnused
    /\ RelayUnused

SpecStats == InitStats /\ [][NextStats]_vars

\* The queries of the HTTP API and of a caller that asks for one peer, and
\* the connect event that gives a peer its entry.  No request is reported,
\* so no entry has an error to age.
QueryWorkload ==
    { StatEvent("QueryStats", a, TRUE, 0) : a \in Addrs }
      \cup { StatEvent("QueryConnectionStats", "none", TRUE, 0),
             StatEvent("ClientConnected", "127.0.0.1:1234", TRUE, 0) }

NextQueries ==
    \/ \E e \in QueryWorkload : SendEvent(e)
    \/ SignalStatsShutdown
    \/ DropStatsShutdown
    \/ \E addr \in Addrs : AgeActive(addr)
    \/ ActorRecv
    \/ ActorCleanup
    \/ ActorObserveShutdown
    \/ ActorObserveClosed
    \/ ActorDrain

\* The task of the actor is scheduled, and select! polls its ready arms in
\* random order: an event on the channel is received, a signal or the drop
\* of the watch sender is observed, the drain loop goes on.  Nothing makes
\* a sender send or the relay signal.
FairActor ==
    /\ WF_vars(ActorRecv)
    /\ WF_vars(ActorObserveShutdown)
    /\ WF_vars(ActorObserveClosed)
    /\ WF_vars(ActorDrain)

SpecStatsFair == InitStats /\ [][NextQueries]_vars /\ FairActor

(***************************************************************************)
(* modbus_relay.rs: handle_client after accept_connection, the loop over   *)
(* handle_frame, and ModbusRelay::shutdown.  A handler is suspended at the *)
(* read of a frame, inside process_request (the transaction above), at a   *)
(* stats_tx.send or at the write of the response.                          *)
(***************************************************************************)
\* The bound on the frames one connection delivers.
MaxFrames == 2

Clients == DOMAIN client

\* 00 01 00 00 00 06 11 03 00 6B 00 01: read one holding register of unit
\* 0x11.
ReadOneTcp == << 0, 1, 0, 0, 0, 6, 17, 3, 0, 107, 0, 1 >>

\* What reader.read gives read_frame: a whole request, a frame with
\* protocol id 1, a frame without a PDU, the end of the stream, or nothing
\* within 60 s.
RelayReads ==
    { [kind |-> "data", data |-> ReadOneTcp],
      [kind |-> "data", data |-> FrameBytes(12, << 0, 1 >>, to_be_bytes(6))],
      [kind |-> "data", data |-> << 0, 1, 0, 0, 0, 1, 17 >>],
      [kind |-> "data", data |-> << >>],
      [kind |-> "timeout", data |-> << >>] }

\* The duration a handler measures with frame_start.elapsed().
RelayDurations == { 25 }

RequestProcessed(h, success, duration_ms) ==
    [StatEvent("RequestProcessed", client[h].addr, success, duration_ms)
       EXCEPT !.seq = client[h].frames]

\* ConnectionGuard::drop on a channel chan: try_send(ClientDisconnected),
\* which gives the event up when the channel is full or closed.
guard_dropped(chan, h) ==
    IF actor.pc # "stopped" /\ Len(chan) < StatsChanCap
    THEN Append(chan, StatEvent("ClientDisconnected", client[h].addr, TRUE, 0))
    ELSE chan

\* handle_client returns or is dropped: the record of the handler.
Closed(h, why) ==
    [client[h] EXCEPT !.pc = "closed", !.exit = why]

\* The frame and transaction id handle_frame passes on from the bytes read.
frame_args(data) ==
    process_frame_args(data, << data[1], data[2] >>)

\* A handle_frame that passes a frame with a wrong protocol id on to
\* process_frame.
ClientRead_any_protocol(h, rd) ==
    /\ client[h].pc = "read"
    /\ LET frame == read_frame(rd)
       IN  /\ client[h].frames < MaxFrames \/ frame.err = "Disconnected"
           /\ IF frame.ok \/ frame.err = "InvalidProtocolId"
              THEN /\ client' =
                        [client EXCEPT
                           ![h].frames = @ + 1,
                           ![h].pc = "process",
                           ![h].err = frame.err,
                           ![h].request = frame_args(rd.data)]
                   /\ UNCHANGED stats_chan
              ELSE IF frame.err = "Disconnected"
              THEN /\ client' = [client EXCEPT ![h] = Closed(h, "disconnect")]
                   /\ stats_chan' = guard_dropped(stats_chan, h)
              ELSE /\ client' =
                        [client EXCEPT
                           ![h].frames = @ + 1,
                           ![h].pc = "stat",
                           ![h].success = FALSE,
                           ![h].next = "return",
                           ![h].err = frame.err]
                   /\ UNCHANGED stats_chan
    /\ UNCHANGED << codec_vars, backoff_vars, rtu_vars, actor_vars, manager_vars, relay >>

\* handle_frame, step 1: read_frame returns.  Disconnected ends the loop
\* with Ok(false); any other error is reported to the stats actor and then
\* returned.
ClientRead(h, rd) ==
    /\ client[h].pc = "read"
    /\ LET frame == read_frame(rd)
       IN  /\ client[h].frames < MaxFrames \/ frame.err = "Disconnected"
           /\ IF frame.ok
              THEN /\ client' =
                        [client EXCEPT
                           ![h].frames = @ + 1,
                           ![h].pc = "process",
                           ![h].err = frame.err,
                           ![h].request = frame_args(frame.val.frame)]
                   /\ UNCHANGED stats_chan
              ELSE IF frame.err = "Disconnected"
              THEN /\ client' = [client EXCEPT ![h] = Closed(h, "disconnect")]
                   /\ stats_chan' = guard_dropped(stats_chan, h)
              ELSE /\ client' =
                        [client EXCEPT
                           ![h].frames = @ + 1,
                           ![h].pc = "stat",
                           ![h].success = FALSE,
                           ![h].next = "return",
                           ![h].err = frame.err]
                   /\ UNCHANGED stats_chan
    /\ UNCHANGED << codec_vars, backoff_vars, rtu_vars, actor_vars, manager_vars, relay >>

\* handle_frame, step 2: process_frame calls process_request.
ClientProcess(h) ==
    /\ client[h].pc = "process"
    /\ pc[h] = "idle"
    /\ BeginRequest(h, client[h].request)

\* A handle_frame that reports every processed request as a success.
ClientAfterProcess_success(h) ==
    /\ client[h].pc = "process"
    /\ pc[h] = "done"
    /\ pc' = [pc EXCEPT ![h] = "idle"]
    /\ served' = [served EXCEPT ![h] = 0]
    /\ client' =
         [client EXCEPT
            ![h].pc = "stat",
            ![h].success = TRUE,
            ![h].next = IF result[h].ok THEN "write" ELSE "return",
            ![h].response = result[h].val,
            ![h].err = result[h].err]
    /\ UNCHANGED << codec_vars, backoff_vars, actor_vars, conn_vars, relay, config, workload,
                    req, tx, rbuf, consecutive_timeouts, txres, result, reply,
                    line_vars >>

\* process_request has returned: its result decides what is reported to
\* the stats actor and what follows.
ClientAfterProcess(h) ==
    /\ client[h].pc = "process"
    /\ pc[h] = "done"
    /\ pc' = [pc EXCEPT ![h] = "idle"]
    /\ served' = [served EXCEPT ![h] = 0]
    /\ client' =
         [client EXCEPT
            ![h].pc = "stat",
            ![h].success = result[h].ok,
            ![h].next = IF result[h].ok THEN "write" ELSE "return",
            ![h].response = result[h].val,
            ![h].err = result[h].err]
    /\ UNCHANGED << codec_vars, backoff_vars, actor_vars, conn_vars, relay, config, workload,
                    req, tx, rbuf, consecutive_timeouts, txres, result, reply,
                    line_vars >>

\* The task panics inside process_request: its locals are dropped.
ClientPanic(h) ==
    /\ client[h].pc = "process"
    /\ pc[h] = "panicked"
    /\ client' = [client EXCEPT ![h] = Closed(h, "panicked")]
    /\ stats_chan' = guard_dropped(stats_chan, h)
    /\ UNCHANGED << codec_vars, backoff_vars, rtu_vars, actor_vars, manager_vars, relay >>

\* stats_tx.send(RequestProcessed).await returns: the event is on the
\* channel, or the receiver is gone and the error is logged.  Then
\* handle_frame goes on to the response or returns its error, which drops
\* the guard of handle_client.
ClientStatSend(h) ==
    /\ client[h].pc = "stat"
    /\ actor.pc # "stopped" => Len(stats_chan) < StatsChanCap
    /\ \E d \in RelayDurations :
         LET chan == IF actor.pc # "stopped"
                     THEN Append(stats_chan,
                                 RequestProcessed(h, client[h].success, d))
                     ELSE stats_chan
             sent == IF actor.pc # "stopped"
                     THEN Append(client[h].sent,
                                 [k |-> client[h].frames,
                                  success |-> client[h].success])
                     ELSE client[h].sent
         IN  IF client[h].next = "write"
             THEN /\ client' = [client EXCEPT ![h].pc = "write",
                                               ![h].sent = sent]
                  /\ stats_chan' = chan
             ELSE /\ client' = [client EXCEPT
                                  ![h] = [Closed(h, "error")
                                            EXCEPT !.sent = sent]]
                  /\ stats_chan' = guard_dropped(chan, h)
    /\ UNCHANGED << codec_vars, backoff_vars, rtu_vars, actor_vars, manager_vars, relay >>

\* A handle_frame that goes on to the next request after a failed write.
ClientWrite_unwritten(h) ==
    /\ client[h].pc = "write"
    /\ \E outcome \in { "none", "WriteError", "Timeout" } :
         IF outcome = "none"
         THEN client' =
                [client EXCEPT
                   ![h].pc = "read",
                   ![h].responses =
                      Append(@, [k |-> client[h].frames,
                                 bytes |-> client[h].response])]
         ELSE client' = [client EXCEPT ![h].pc = "read"]
    /\ UNCHANGED << codec_vars, backoff_vars, rtu_vars, actor_vars, conn_vars, relay >>

\* handle_frame, step 3: send_response returns Ok, a write error or, after
\* 5 s, a timeout; a failure is reported to the stats actor as well.
ClientWrite(h) ==
    /\ client[h].pc = "write"
    /\ \E outcome \in { "none", "WriteError", "Timeout" } :
         IF outcome = "none"
         THEN client' =
                [client EXCEPT
                   ![h].pc = "read",
                   ![h].responses =
                      Append(@, [k |-> client[h].frames,
                                 bytes |-> client[h].response])]
         ELSE client' =
                [client EXCEPT
                   ![h].pc = "stat",
                   ![h].success = FALSE,
                   ![h].next = "return",
                   ![h].err = outcome]
    /\ UNCHANGED << codec_vars, backoff_vars, rtu_vars, actor_vars, conn_vars, relay >>

\* Where handle_frame is suspended: at the read, at an await of the
\* transaction (the lock, a sleep, a yield), at a send on a full channel or
\* at the write.
SuspendedAt(h) ==
    CASE client[h].pc = "read" -> "read"
      [] client[h].pc = "write" -> "write"
      [] client[h].pc = "stat" /\ actor.pc # "stopped"
           /\ Len(stats_chan) >= StatsChanCap -> "stat"
      [] client[h].pc = "process"
           /\ pc[h] \in {"lock_wait", "tx_delay", "rx_delay", "read_yield"}
           -> pc[h]
      [] OTHER -> "running"

\* handle_client, the arm shutdown_rx.recv() of select!: the loop breaks,
\* which drops the handle_frame future where it is suspended, with the
\* MutexGuard of the port if the transaction holds it, and then the guard.
ClientShutdown(h) ==
    /\ relay.shutdown
    /\ client[h].pc # "closed"
    /\ SuspendedAt(h) # "running"
    /\ client' = [client EXCEPT
                    ![h] = [Closed(h, "shutdown")
                              EXCEPT !.dropped = SuspendedAt(h)]]
    /\ pc' = [pc EXCEPT ![h] = IF client[h].pc = "process" THEN "dropped"
                               ELSE @]
    /\ port_lock' = IF port_lock = h THEN 0 ELSE port_lock
    /\ stats_chan' = guard_dropped(stats_chan, h)
    /\ UNCHANGED << codec_vars, backoff_vars, actor_vars, manager_vars, relay, config,
                    workload, req, tx, rbuf, consecutive_timeouts, txres,
                    result, served, reply, rts, ops, rx_buf, dev_out >>

\* shutdown, step 2: self.shutdown.send(()).
RelayShutdown ==
    /\ ~relay.shutdown
    /\ relay' = [relay EXCEPT !.shutdown = TRUE]
    /\ UNCHANGED << codec_vars, backoff_vars, rtu_vars, actor_vars, conn_vars, client >>

\* shutdown, steps 3 and 4: the wait for the connections ends, by their
\* count or after 5 s, and transport.close() takes the lock of the port.
RelayClosePort ==
    /\ relay.shutdown
    /\ relay.port = "open"
    /\ port_lock = 0
    /\ relay' = [relay EXCEPT !.port = "closed"]
    /\ UNCHANGED << codec_vars, backoff_vars, rtu_vars, actor_vars, conn_vars, client >>

\* A transaction on the closed port: the first ioctl fails.
LockClosedPort(h) ==
    /\ relay.port = "closed"
    /\ pc[h] = "lock_wait"
    /\ port_lock = 0
    /\ EndTransaction(h, Err("Rts"))
    /\ UNCHANGED << codec_vars, backoff_vars, actor_vars, relay_vars, conn_vars, config,
                    workload, req, tx, rbuf, consecutive_timeouts, served,
                    reply, rts, ops, rx_buf, dev_out >>

ClientStep(h) ==
    \/ \E rd \in RelayReads : ClientRead(h, rd)
    \/ ClientProcess(h)
    \/ relay.port = "open" /\ LockPort(h)
    \/ LockClosedPort(h)
    \/ SetRtsTx(h)
    \/ SleepDone(h)
    \/ WriteRequest(h)
    \/ SetRtsRx(h)
    \/ TcFlush(h)
    \/ ReadStep(h)
    \/ ReadResume(h)
    \/ TransactionTimeout(h)
    \/ ClientAfterProcess(h)
    \/ ClientPanic(h)
    \/ ClientStatSend(h)
    \/ ClientWrite(h)
    \/ ClientShutdown(h)

NextRelay ==
    \/ \E h \in Clients : ClientStep(h)
    \/ RelayShutdown
    \/ RelayClosePort
    \/ ActorRecv

\* The bound on the connections served at once.
NumRelayClients == 1

NewClient(addr) ==
    [pc |-> "read", addr |-> addr, frames |-> 0,
     request |-> [transaction_id |-> << 0, 0 >>, unit_id |-> 0, pdu |-> << >>],
     success |-> TRUE, next |-> "write", response |-> << >>,
     responses |-> << >>, sent |-> << >>, err |-> "none", exit |-> "none",
     dropped |-> "none"]

\* The relay logs its frames.
RelayConfig == [DefaultConfig EXCEPT !.trace_frames = TRUE]

\* The event the guard of an earlier connection of another peer has sent.
OtherDisconnected == StatEvent("ClientDisconnected", "127.0.0.1:1235", TRUE, 0)

\* The connections have been accepted; nothing has been read yet.  The
\* stats channel is empty or still holds the event of an earlier connection.
InitRelay ==
    /\ CodecUnused
    /\ BackoffUnused
    /\ conn_config = [max_connections |-> 100, per_ip_limits |-> {10}]
    /\ conn = << >>
    /\ global_semaphore = 100
    /\ per_ip_semaphores = << >>
    /\ stats = << >>
    /\ stats_lock = "free"
    /\ total_connections = 0
    /\ stats_chan \in { << >>, << OtherDisconnected >> }
    /\ cleanup = [pc |-> "wait", to_clean |-> {}, quiet |-> {}]
    /\ ActorUnused
    /\ config = RelayConfig
    /\ workload = {}
    /\ InitCallers(1 .. NumRelayClients)
    /\ client = [h \in 1 .. NumRelayClients |-> NewClient("127.0.0.1:1234")]
    /\ relay = NewRelay(TRUE)

SpecRelay == InitRelay /\ [][NextRelay]_vars

(***************************************************************************)
(* modbus_relay.rs: ModbusRelay::shutdown, step by step, with the tasks of *)
(* self.tasks, the handlers' stat events and the stats actor.  The relay   *)
(* is running when run has subscribed to the shutdown channels and spawned *)
(* its tasks; shutdown() may also be called on a relay that is not.        *)
(***************************************************************************)
\* The events a handler or its guard sends.
HandlerEvents ==
    { StatEvent("RequestProcessed", "127.0.0.1:1234", TRUE, 25),
      StatEvent("ClientDisconnected", "127.0.0.1:1234", TRUE, 0) }

\* A handler of the running relay sends an event.
HandlerSend(e) ==
    /\ relay.running
    /\ SendEvent(e)

\* shutdown(): main_shutdown.send(true), whose error (no receiver) is
\* ignored, up to the await of get_stats.
ShutdownStart ==
    /\ relay.pc = "idle"
    /\ relay' = [relay EXCEPT !.pc = "get_stats",
                              !.main_shutdown = relay.running]
    /\ UNCHANGED << codec_vars, backoff_vars, rtu_vars, conn_vars, actor_vars,
                    client >>

\* Steps 1 and 2: get_stats has returned Ok and self.shutdown.send(()) is
\* called; with no receiver the send fails and ? returns the error.
ShutdownBroadcast ==
    /\ relay.pc = "get_stats"
    /\ stats_lock = "free"
    /\ relay' = IF relay.running
                THEN [relay EXCEPT !.pc = "wait", !.shutdown = TRUE]
                ELSE [relay EXCEPT !.pc = "returned",
                                   !.ret = Err("InvalidState")]
    /\ UNCHANGED << codec_vars, backoff_vars, rtu_vars, conn_vars, actor_vars,
                    client >>

\* Step 3: the loop ends, with no active connection reported or after 5 s.
ShutdownWaited ==
    /\ relay.pc = "wait"
    /\ relay' = [relay EXCEPT !.pc = "close"]
    /\ UNCHANGED << codec_vars, backoff_vars, rtu_vars, conn_vars, actor_vars,
                    client >>

\* Step 4: transport.close() takes the lock of the port; port.clear or
\* libc::close may fail, which is logged.
ShutdownClose ==
    /\ relay.pc = "close"
    /\ port_lock = 0
    /\ \E outcome \in { "ok", "clear_failed", "close_failed" } :
         relay' = [relay EXCEPT !.pc = "join",
                                !.close = outcome,
                                !.port = IF outcome = "ok" THEN "closed"
                                         ELSE @]
    /\ UNCHANGED << codec_vars, backoff_vars, rtu_vars, conn_vars, actor_vars,
                    client >>

\* A task of self.tasks receives the broadcast and ends.
TaskExit(t) ==
    /\ relay.shutdown
    /\ t \in relay.tasks
    /\ relay' = [relay EXCEPT !.tasks = @ \ {t}]
    /\ UNCHANGED << codec_vars, backoff_vars, rtu_vars, conn_vars, actor_vars,
                    client >>

\* Step 5: join_all under its 5 s timeout ends with all tasks joined, or
\* with the timeout while a task still runs.
ShutdownJoin ==
    /\ relay.pc = "join"
    /\ relay' = [relay EXCEPT !.pc = "signal",
                              !.join = IF relay.tasks = {} THEN "joined"
                                       ELSE "timeout"]
    /\ UNCHANGED << codec_vars, backoff_vars, rtu_vars, conn_vars, actor_vars,
                    client >>

\* A step 6 that does not wait for steps 3 to 5.
ShutdownSignal_early ==
    /\ relay.pc \in { "wait", "signal" }
    /\ relay' = [relay EXCEPT !.pc = "await_stats"]
    /\ stats_shutdown' = IF stats_shutdown = "open" THEN "changed"
                         ELSE stats_shutdown
    /\ UNCHANGED << codec_vars, backoff_vars, rtu_vars, conn_vars, client,
                    stats_map, actor, queries, hist >>

\* Step 6: stats_manager_shutdown.send(true).
ShutdownSignal ==
    /\ relay.pc = "signal"
    /\ relay' = [relay EXCEPT !.pc = "await_stats"]
    /\ stats_shutdown' = IF stats_shutdown = "open" THEN "changed"
                         ELSE stats_shutdown
    /\ UNCHANGED << codec_vars, backoff_vars, rtu_vars, conn_vars, client,
                    stats_map, actor, queries, hist >>

\* handle.await has the result of the actor's task; shutdown returns Ok.
ShutdownReturn ==
    /\ relay.pc = "await_stats"
    /\ actor.pc = "stopped"
    /\ relay' = [relay EXCEPT !.pc = "returned", !.ret = Ok(<< >>)]
    /\ UNCHANGED << codec_vars, backoff_vars, rtu_vars, conn_vars, actor_vars,
                    client >>

NextShutdown ==
    \/ \E e \in HandlerEvents : HandlerSend(e)
    \/ ShutdownStart
    \/ ShutdownBroadcast
    \/ ShutdownWaited
    \/ ShutdownClose
    \/ \E t \in { "tcp_server", "cleanup" } : TaskExit(t)
    \/ ShutdownJoin
    \/ ShutdownSignal
    \/ ShutdownReturn
    \/ ActorRecv
    \/ ActorObserveShutdown
    \/ ActorDrain

InitShutdown ==
    /\ CodecUnused
    /\ BackoffUnused
    /\ RtuUnused
    /\ ConnUnused
    /\ ActorUnused
    /\ client = << >>
    /\ \E running \in BOOLEAN : relay = NewRelay(running)

SpecShutdown == InitShutdown /\ [][NextShutdown]_vars

(***************************************************************************)
(* connection/backoff_strategy.rs: BackoffStrategy.  Durations are whole   *)
(* milliseconds and the multiplier a whole number, for which the f64       *)
(* arithmetic of next_backoff is exact to the nanosecond.                  *)
(***************************************************************************)
\* The bounds on the calls of next_backoff since new or the last reset, and
\* on the calls of reset.
MaxCalls == 5
MaxResets == 1

\* f64::powi for a whole base.
RECURSIVE powi(_, _)
powi(base, n) == IF n = 0 THEN 1 ELSE base * powi(base, n - 1)

None == [some |-> FALSE, val |-> 0]
Some(v) == [some |-> TRUE, val |-> v]

BackoffConfigs ==
    [initial_interval : { 100, 400 },
     max_interval : { 300, 1000 },
     multiplier : 1 .. 3,
     max_retries : 1 .. 3]

\* BackoffStrategy::new.  calls, resets and ret are not fields of the
\* struct: they record the calls made and the last value returned.
BackoffStrategy_new(cfg) ==
    [config |-> cfg, current_attempt |-> 0, last_attempt |-> None,
     ret |-> None, calls |-> 0, resets |-> 0]

\* A next_backoff that allows one attempt more than max_retries.
next_backoff_extra(self) ==
    IF self.current_attempt > self.config.max_retries
    THEN [self EXCEPT !.ret = None]
    ELSE LET interval == self.config.initial_interval
                           * powi(self.config.multiplier, self.current_attempt)
         IN  [self EXCEPT !.current_attempt = @ + 1,
                          !.last_attempt = Some(0),
                          !.ret = Some(Min(interval, self.config.max_interval))]

\* next_backoff: the strategy after the call, with the value returned.
next_backoff(self) ==
    IF self.current_attempt >= self.config.max_retries
    THEN [self EXCEPT !.ret = None]
    ELSE LET interval == self.config.initial_interval
                           * powi(self.config.multiplier, self.current_attempt)
         IN  [self EXCEPT !.current_attempt = @ + 1,
                          !.last_attempt = Some(0),
                          !.ret = Some(Min(interval, self.config.max_interval))]

\* reset.
reset(self) == [self EXCEPT !.current_attempt = 0, !.last_attempt = None]

CallNextBackoff ==
    /\ strategy # << >>
    /\ strategy.calls < MaxCalls
    /\ strategy' = [next_backoff(strategy) EXCEPT !.calls = @ + 1]
    /\ UNCHANGED << codec_vars, rtu_vars, conn_vars, actor_vars, relay_vars >>

CallReset ==
    /\ strategy # << >>
    /\ strategy.resets < MaxResets
    /\ strategy' = [reset(strategy) EXCEPT !.calls = 0, !.resets = @ + 1]
    /\ UNCHANGED << codec_vars, rtu_vars, conn_vars, actor_vars, relay_vars >>

NextBackoff == CallNextBackoff \/ CallReset

InitBackoff ==
    /\ CodecUnused
    /\ RtuUnused
    /\ ConnUnused
    /\ ActorUnused
    /\ RelayUnused
    /\ \E cfg \in BackoffConfigs : strategy = BackoffStrategy_new(cfg)

SpecBackoff == InitBackoff /\ [][NextBackoff]_vars

(***************************************************************************)
(* Claims about the codec (checked under SpecCodec).                       *)
(***************************************************************************)
Returned == ret.err # "pending"

\* The fields of a read, taken from its bytes with no reference to read_frame.
ReadLen == Len(call.arg.data)
ReadProtocolId == 256 * call.arg.data[3] + call.arg.data[4]
ReadLengthField == 256 * call.arg.data[5] + call.arg.data[6]

ReadIsValid ==
    /\ call.arg.kind = "data"
    /\ ReadLen >= 7
    /\ ReadProtocolId = 0
    /\ ReadLengthField <= 249
    /\ ReadLengthField + 6 = ReadLen

\* C8: read_frame accepts the n bytes of one read if and only if n >= 7,
\* protocol_id = 0, the length field is at most 249 and length + 6 = n; every
\* accepted frame has len(F) = 6 + be16(F[4..6]); a read of at least 7 bytes
\* with protocol id 0 and length field 250 is rejected as TooLong; no frame
\* with length field 0 is accepted.
C8_ReadFrameAccepts ==
    (call.op = "read_frame" /\ Returned) =>
        /\ ret.ok <=> ReadIsValid
        /\ ret.ok => /\ ret.val.frame = call.arg.data
                     /\ Len(ret.val.frame)
                          = 6 + from_be_bytes(ret.val.frame[5], ret.val.frame[6])
                     /\ ret.val.transaction_id
                          = << call.arg.data[1], call.arg.data[2] >>
        /\ ( /\ call.arg.kind = "data"
             /\ ReadLen >= 7
             /\ ReadProtocolId = 0
             /\ ReadLengthField = 250 ) => (~ret.ok /\ ret.err = "TooLong")
        /\ (call.arg.kind = "data" /\ ReadLen >= 6 /\ ReadLengthField = 0)
              => ~ret.ok

\* A frame of 255 bytes with length field 249 has been accepted.
C8_Witness ==
    /\ call.op = "read_frame"
    /\ Returned
    /\ ret.ok
    /\ ReadLen = 255

\* The bit-by-bit CRC-16/Modbus: init 0xFFFF, reflected polynomial 0xA001,
\* no final XOR.
RefCrcShift(crc) ==
    IF crc % 2 = 1 THEN BitXor(crc \div 2, 40961) ELSE crc \div 2

RECURSIVE RefCrcBits(_, _)
RefCrcBits(crc, k) == IF k = 0 THEN crc ELSE RefCrcBits(RefCrcShift(crc), k - 1)

RECURSIVE RefCrc(_, _, _)
RefCrc(data, i, crc) ==
    IF i > Len(data) THEN crc
    ELSE RefCrc(data, i + 1, RefCrcBits(BitXor(crc, data[i]), 8))

\* C9: calc_crc16 returns 0xFFFF for empty input and, for every single-byte
\* input 0x00..0xFF, the value of the bit-by-bit CRC-16/Modbus reference.
C9_CrcMatchesReference ==
    (call.op = "calc_crc16" /\ Returned /\ Len(call.arg) <= 1) =>
        /\ ret.val = RefCrc(call.arg, 1, 65535)
        /\ call.arg = << >> => ret.val = 65535

\* The CRC of the single byte 0xFF has been computed.
C9_Witness ==
    /\ call.op = "calc_crc16"
    /\ Returned
    /\ call.arg = << 255 >>

\* The length of the RTU response a Modbus responder that serves the eight
\* function codes of the table gives to a well-formed request: unit id,
\* function code, the data of the function, CRC.  Any other function code
\* is answered with the 5-byte exception frame (unit, code | 0x80,
\* exception code, CRC).
RefResponseLen(f, q) ==
    CASE f \in {1, 2}         -> 3 + ((q + 7) \div 8) + 2
      [] f \in {3, 4}         -> 3 + 2 * q + 2
      [] f \in {5, 6, 15, 16} -> 2 + 4 + 2
      [] OTHER                -> 5

TableValue(f, q) ==
    CASE f \in {1, 2}         -> 5 + ((q + 7) \div 8)
      [] f \in {3, 4}         -> 5 + 2 * q
      [] f \in {5, 6, 15, 16} -> 8
      [] OTHER                -> 256

SizeF == call.arg[1]
SizeQ == call.arg[2]

\* C10 as claimed: the table, and for q in {1, 8, 125} and every function
\* code the estimate is the length of a valid response to the request.
C10_Original ==
    (call.op = "guess_response_size" /\ Returned) =>
        /\ ret.val = TableValue(SizeF, SizeQ)
        /\ SizeQ \in {1, 8, 125} => ret.val = RefResponseLen(SizeF, SizeQ)

\* C10 as amended: the table, and for q in {1, 8, 125} and the eight
\* function codes of the table the estimate is the length of a valid
\* response; for any other function code 256 is only an upper bound.
C10_SizeTable ==
    (call.op = "guess_response_size" /\ Returned) =>
        /\ ret.val = TableValue(SizeF, SizeQ)
        /\ (SizeQ \in {1, 8, 125} /\ SizeF \in {1, 2, 3, 4, 5, 6, 15, 16})
              => ret.val = RefResponseLen(SizeF, SizeQ)

\* The estimate for reading 125 holding registers has been computed.
C10_Witness ==
    /\ call.op = "guess_response_size"
    /\ Returned
    /\ SizeF = 3
    /\ SizeQ = 125
    /\ ret.val = 255

(***************************************************************************)
(* Claims about the transport and the bridge.                              *)
(***************************************************************************)
\* The positions of transaction between taking the lock and returning.
PastLock ==
    { "tx_setup", "tx_delay", "writing", "tx_to_rx", "tc_flush", "rx_delay",
      "reading", "read_yield" }

OnlyHolderPastLock ==
    \A h \in Callers :
      pc[h] \in PastLock =>
        /\ port_lock = h
        /\ \A g \in Callers : pc[g] \in PastLock => g = h

\* A step that writes bytes, flushes or sets RTS.
TouchesLine == Len(ops') > Len(ops) \/ rts' # rts

LineStepByHolder ==
    TouchesLine =>
      \E h \in Callers :
        /\ pc[h] \in PastLock
        /\ port_lock = h
        /\ \A g \in Callers \ {h} : pc[g] \notin PastLock
        /\ \A i \in Len(ops) + 1 .. Len(ops') : ops'[i].by = h

\* C1: with any number of callers of transaction, at most one is past the
\* lock acquisition at any instant, and every write, flush and RTS change
\* is made by that one while no other caller is past the lock.
C1_SerialLockExcludes == [](OnlyHolderPastLock) /\ [][LineStepByHolder]_vars

\* One caller has written its request and reads while another waits for
\* the lock.
C1_Witness ==
    \E h, g \in Callers :
      /\ h # g
      /\ pc[h] = "reading"
      /\ pc[g] = "lock_wait"
      /\ \E i \in 1 .. Len(ops) : ops[i].op = "write" /\ ops[i].by = h

TransactionErrors == { "Timeout", "NoResponse", "Io", "Rts", "TooLong" }

GatewayTargetFailed(r) ==
    LET f == IF Len(r.pdu) > 0 THEN r.pdu[1] ELSE 0
    IN  r.transaction_id
          \o << 0, 0, 0, 3, r.unit_id, IF f >= 128 THEN f ELSE f + 128, 11 >>

\* C6: whenever transaction returned an error (Timeout, NoResponse, Io, Rts
\* or frame too long), process_request returned Ok with the 9 bytes
\* transaction_id, 00 00, 00 03, unit_id, function code | 0x80, 0x0B.
C6_TransportErrorBecomesException ==
    \A h \in Callers :
      (pc[h] = "done" /\ txres[h].err \in TransactionErrors) =>
        /\ result[h].ok
        /\ result[h].val = GatewayTargetFailed(req[h])
        /\ Len(result[h].val) = 9

\* The request was too long for the transport and the client still got the
\* exception frame.
C6_Witness ==
    \E h \in Callers :
      /\ pc[h] = "done"
      /\ txres[h].err = "TooLong"
      /\ result[h] = Ok(<< 0, 1, 0, 0, 0, 3, 17, 144, 11 >>)

IsPrefix(a, b) == Len(a) <= Len(b) /\ a = SubSeq(b, 1, Len(a))

\* The device answered with at least 5 bytes, a correct CRC and the unit id
\* of the request.
ValidReply(h) ==
    LET d == reply[h]
        n == Len(d)
    IN  /\ n >= 5
        /\ d[1] = req[h].unit_id
        /\ calc_crc16(SubSeq(d, 1, n - 2)) = d[n - 1] + 256 * d[n]

\* The transaction returned bytes of that answer, and stopped reading either
\* with all of it or because it had the size it waited for.
ReadOfReply(h) ==
    /\ txres[h].ok
    /\ IsPrefix(txres[h].val, reply[h])
    /\ (txres[h].val = reply[h] \/ Len(txres[h].val) >= tx[h].expected_size)

WroteRequest(h) ==
    \E i \in 1 .. Len(ops) :
      /\ ops[i].op = "write"
      /\ ops[i].by = h
      /\ LET body == << req[h].unit_id >> \o req[h].pdu
             crc == calc_crc16(body)
         IN  ops[i].bytes = body \o << crc % 256, crc \div 256 >>

\* C7: when the device reply of n bytes has a correct CRC and the request's
\* unit id, process_request has written unit_id, pdu and their CRC-16 (low
\* byte first) and returns transaction_id, 00 00, be16(n-2) and the first
\* n-2 reply bytes.
C7_Original ==
    \A h \in Callers :
      (pc[h] = "done" /\ port_lock = 0 /\ ValidReply(h) /\ ReadOfReply(h)) =>
        LET n == Len(reply[h])
        IN  /\ WroteRequest(h)
            /\ result[h].ok
            /\ result[h].val =
                 req[h].transaction_id
                   \o << 0, 0, (n - 2) \div 256, (n - 2) % 256 >>
                   \o SubSeq(reply[h], 1, n - 2)

\* The example: 00 01 00 00 00 06 11 03 00 6B 00 03 goes out as
\* 11 03 00 6B 00 03 76 87 and comes back as
\* 00 01 00 00 00 09 11 03 06 02 2B 00 00 00 64.
C7_Example ==
    \E h \in Callers :
      /\ pc[h] = "done"
      /\ req[h] = ReadHoldingRequest
      /\ \E i \in 1 .. Len(ops) :
           ops[i].op = "write"
             /\ ops[i].bytes = << 17, 3, 0, 107, 0, 3, 118, 135 >>
      /\ result[h] = Ok(<< 0, 1, 0, 0, 0, 9, 17, 3, 6, 2, 43, 0, 0, 0, 100 >>)

(***************************************************************************)
(* Claims about the admission of connections (checked under SpecConn).     *)
(***************************************************************************)
LiveGuards == { h \in Handlers : conn[h].guard }
LiveGuardsOf(addr) == { h \in LiveGuards : conn[h].addr = addr }

\* C2: in every reachable state the live ConnectionGuards are at most
\* max_connections and, when per_ip_limits is set, those of each peer
\* address are at most per_ip_limits.
C2_AdmissionLimits ==
    /\ Cardinality(LiveGuards) <= conn_config.max_connections
    /\ \A l \in conn_config.per_ip_limits, a \in Addrs :
         Cardinality(LiveGuardsOf(a)) <= l

\* Both limits are reached by two guards of one address, and a third
\* connection of that address has been turned away.
C2_Witness ==
    /\ conn_config = [max_connections |-> 2, per_ip_limits |-> {2}]
    /\ \E a \in Addrs :
         /\ Cardinality(LiveGuardsOf(a)) = 2
         /\ \E h \in Handlers :
              conn[h].addr = a /\ conn[h].pc = "rejected"

\* The connections that hold a permit of the semaphore of addr, with or
\* without a guard yet.
PerIpHolders(addr) ==
    { h \in Handlers : conn[h].per_ip_permit /\ conn[h].addr = addr }

PerIpAccounting ==
    \A l \in conn_config.per_ip_limits, a \in DOMAIN per_ip_semaphores :
      per_ip_semaphores[a] + Cardinality(PerIpHolders(a)) = l

\* The step of h that settles the per-IP limit.
PerIpStep(h) ==
    conn[h].pc = "new" /\ conn'[h].pc \in {"acc_global", "rejected"}

PerIpOutcome ==
    \A h \in Handlers, l \in conn_config.per_ip_limits :
      PerIpStep(h) =>
        /\ Cardinality(LiveGuardsOf(conn[h].addr)) >= l =>
             /\ conn'[h].pc = "rejected"
             /\ conn'[h].err = "LimitExceeded"
             /\ global_semaphore' = global_semaphore
        /\ Cardinality(PerIpHolders(conn[h].addr)) < l =>
             /\ conn'[h].pc = "acc_global"
             /\ conn'[h].per_ip_permit

GlobalOutcome ==
    \A h \in Handlers :
      (conn[h].pc = "acc_global" /\ conn'[h].pc # "acc_global"
         /\ global_semaphore > 0) =>
        conn'[h].pc = "acc_stats"

GuardAfterPermits ==
    \A h \in Handlers :
      (conn[h].pc = "acc_count" /\ conn'[h].pc # "acc_count") =>
        conn'[h].guard

\* C3: with per_ip_limits = L, the accept of a peer that holds L live guards
\* fails in its first step with LimitExceeded; a dropped guard gives its
\* per-IP permit back, so that an accept of the peer while fewer than L
\* permits are out passes the per-IP limit, passes the global limit when a
\* global permit is free, and then returns a guard.
C3_PerIpLimitThenFree ==
    [](PerIpAccounting)
      /\ [][PerIpOutcome /\ GlobalOutcome /\ GuardAfterPermits]_vars

\* With per_ip_limits = 1: one connection of the address has gone, one was
\* turned away at the per-IP limit, and a third one holds a guard.
C3_Witness ==
    /\ conn_config.per_ip_limits = {1}
    /\ \E h1, h2, h3 \in Handlers :
         /\ conn[h1].addr = conn[h2].addr /\ conn[h2].addr = conn[h3].addr
         /\ conn[h1].pc = "closed" /\ conn[h1].exit \in ExitPaths
         /\ conn[h2].pc = "rejected" /\ conn[h2].scope = "per_ip"
         /\ conn[h3].guard

\* C4: for every guard returned by accept_connection the counter of its
\* peer is decremented exactly once when the guard is dropped, never zero
\* times and never twice.
C4_Original ==
    \A h \in Handlers :
      /\ conn[h].decrements <= 1
      /\ (conn[h].pc = "closed" /\ conn[h].exit \in ExitPaths) =>
           conn[h].decrements = 1

GlobalHolders == { h \in Handlers : conn[h].global_permit }

\* C5: on every exit of handle_client (client disconnect, error, shutdown,
\* cancellation, a failed accept) the connection holds no permit any more
\* and both semaphores have got back what it held: the permits left in a
\* semaphore and the permits held by connections add up to its capacity.
C5_PermitsReturned ==
    /\ \A h \in Handlers :
         conn[h].pc \in {"closed", "rejected"} =>
           ~conn[h].global_permit /\ ~conn[h].per_ip_permit
    /\ \A h \in Handlers :
         (conn[h].global_permit \/ conn[h].per_ip_permit) =>
           conn[h].pc \in {"acc_global", "acc_stats", "acc_count", "serving"}
    /\ global_semaphore + Cardinality(GlobalHolders)
         = conn_config.max_connections
    /\ \A l \in conn_config.per_ip_limits, a \in DOMAIN per_ip_semaphores :
         per_ip_semaphores[a] + Cardinality(PerIpHolders(a)) = l

\* Three connections have left, by an error, by the shutdown signal and by
\* cancellation, and every permit is back.
C5_Witness ==
    /\ conn_config.per_ip_limits # {}
    /\ \E h1, h2, h3 \in Handlers :
         /\ conn[h1].pc = "closed" /\ conn[h1].exit = "error"
         /\ conn[h2].pc = "closed" /\ conn[h2].exit = "shutdown"
         /\ conn[h3].pc = "closed" /\ conn[h3].exit = "cancelled"
    /\ global_semaphore = conn_config.max_connections
    /\ \A a \in DOMAIN per_ip_semaphores :
         per_ip_semaphores[a] \in conn_config.per_ip_limits

(***************************************************************************)
(* Claims on the stats actor, checked under SpecStats.                     *)
(***************************************************************************)
\* C11: after the stats actor has processed any sequence of
\* ClientConnected, ClientDisconnected and RequestProcessed events,
\* interleaved with idle cleanups, every entry of the per-client map has
\* total_errors <= total_requests.
C11_ErrorsWithinRequests ==
    \A a \in DOMAIN stats_map :
      stats_map[a].total_errors <= stats_map[a].total_requests

\* A cleanup has removed an entry, and an entry has counted a failed and a
\* successful request.
C11_Witness ==
    /\ hist.cleaned # {}
    /\ \E a \in DOMAIN stats_map :
         /\ stats_map[a].total_errors = 1
         /\ stats_map[a].total_requests = 2

\* The events of addr the actor handled before it handled event number id.
HandledBefore(addr, id) ==
    LET earlier(e) == e.addr = addr /\ e.seq < id
    IN  SelectSeq(hist.handled, earlier)

CountKind(log, kind) ==
    LET match(e) == e.kind = kind
    IN  Len(SelectSeq(log, match))

CountFailures(log) ==
    LET failed(e) == e.kind = "RequestProcessed" /\ ~e.success
    IN  Len(SelectSeq(log, failed))

\* The QueryStats events that were answered for an address whose entry no
\* cleanup has removed.
AnsweredQueries ==
    { e \in { hist.handled[i] : i \in DOMAIN hist.handled } :
        /\ e.kind = "QueryStats"
        /\ queries[e.seq].state = "replied"
        /\ e.addr \notin hist.cleaned }

\* The reply to query e reports the three counts of the claim.
ReplyCounts(e) ==
    LET log == HandledBefore(e.addr, e.seq)
        r == queries[e.seq].val
    IN  /\ r.total_requests = CountKind(log, "RequestProcessed")
        /\ r.total_errors = CountFailures(log)
        /\ r.active_connections
             = CountKind(log, "ClientConnected")
                 - CountKind(log, "ClientDisconnected")

\* Every ClientDisconnected of the log was handled when more
\* ClientConnected than ClientDisconnected had been handled before it.
DisconnectsMatched(log) ==
    \A k \in 1 .. Len(log) :
      CountKind(SubSeq(log, 1, k), "ClientDisconnected")
        <= CountKind(SubSeq(log, 1, k), "ClientConnected")

\* C12 as stated: when no idle cleanup removes the entry, a QueryStats reply
\* reports total_requests as the number of the peer's RequestProcessed
\* events, total_errors as the number of them with success = false and
\* active_connections as the number of ClientConnected minus the number of
\* ClientDisconnected events.
C12_Original == \A e \in AnsweredQueries : ReplyCounts(e)

\* C12: the reply reports those three counts when, in addition, no
\* ClientDisconnected of the peer was handled while its count of
\* connections was zero (the subtraction saturates at zero, and a
\* ClientDisconnected for an address without an entry is ignored).
C12_QueryReply ==
    \A e \in AnsweredQueries :
      DisconnectsMatched(HandledBefore(e.addr, e.seq)) => ReplyCounts(e)

\* A reply after a connect and a failed request: one connection, one
\* request, one error.
C12_Witness ==
    \E e \in AnsweredQueries :
      LET log == HandledBefore(e.addr, e.seq)
      IN  /\ DisconnectsMatched(log)
          /\ CountKind(log, "ClientConnected") = 1
          /\ CountFailures(log) = 1

\* The events enqueued before the actor observed its shutdown signal.
EnqueuedBeforeSignal == 1 .. hist.seen

HandledSeqs == { hist.handled[i].seq : i \in DOMAIN hist.handled }

\* C13: every event that was enqueued on the stats channel before the stats
\* actor observed its shutdown signal has been handled when
\* StatsManager::run returns; none of them is left on the channel.
C13_DrainedBeforeReturn ==
    (actor.pc = "stopped" /\ actor.exit = "signal") =>
      /\ EnqueuedBeforeSignal \subseteq HandledSeqs
      /\ stats_chan = << >>

\* run has returned after the signal, which it observed with a full channel.
C13_Witness ==
    /\ actor.pc = "stopped"
    /\ actor.exit = "signal"
    /\ hist.backlog = StatsChanCap

(***************************************************************************)
(* Claims on the client handlers, checked under SpecRelay.                 *)
(***************************************************************************)
\* The handler waits in stats_tx.send for a slot of the full channel.
BlockedOnStats(h) == client[h].pc # "closed" /\ SuspendedAt(h) = "stat"

\* C14: when the bounded stats channel is full, a handler's stat send does
\* not block: the handler is never suspended in the send, with the response
\* of the request still to be written, until the stats actor frees a slot.
C14_Original == \A h \in Clients : ~BlockedOnStats(h)

\* The requests of a connection that have been answered on its socket.
Answered(h) == { client[h].responses[i].k : i \in DOMAIN client[h].responses }

\* Before handler h reads its next request, the requests it has read have
\* ended their transactions and have been answered.
EarlierRequestsDone(h) ==
    /\ pc[h] = "idle"
    /\ port_lock # h
    /\ Answered(h) = 1 .. client[h].frames
    /\ client[h].pc = "read"

\* C15: within one TCP connection the requests are served in their order of
\* arrival: the handler reads request k+1 only when the RTU transaction of
\* request k has ended and its response has been written (a request that
\* ends otherwise closes the connection, and nothing is read after it).
C15_RequestsInOrder ==
    [][\A h \in Clients :
         client'[h].frames # client[h].frames =>
           /\ client'[h].frames = client[h].frames + 1
           /\ EarlierRequestsDone(h)]_vars

\* The second request of a connection has been answered after the first.
C15_Witness ==
    \E h \in Clients :
      /\ client[h].frames = 2
      /\ Len(client[h].responses) = 2
      /\ client[h].responses[1].k = 1
      /\ client[h].responses[2].k = 2

\* The awaits of RtuTransport::transaction.
TransactionAwaits == { "lock_wait", "tx_delay", "rx_delay", "read_yield" }

\* C16: when shutdown is signalled while a connection has an RTU
\* transaction in flight, the request completes before the handler exits:
\* no handler leaves by the shutdown signal from inside a transaction.
C16_Original ==
    \A h \in Clients :
      client[h].exit = "shutdown" => client[h].dropped \notin TransactionAwaits

\* The response transaction returned to process_request has at least 5
\* bytes and its last two bytes are not the CRC-16 of the bytes before.
CrcMismatch(h) ==
    /\ txres[h].ok
    /\ Len(txres[h].val) >= 5
    /\ LET n == Len(txres[h].val)
       IN  from_le_bytes(txres[h].val[n - 1], txres[h].val[n])
             # calc_crc16(SubSeq(txres[h].val, 1, n - 2))

\* The last event handler h has sent reports the failure of request k.
ReportedFailure(h, k) ==
    /\ client[h].sent # << >>
    /\ client[h].sent[Len(client[h].sent)] = [k |-> k, success |-> FALSE]

ProtocolIdRejected(h) == client[h].err = "InvalidProtocolId"

\* A step of the transaction of handler h: it takes the lock, or it puts
\* an operation on the serial line.
SerialStep(h) ==
    \/ pc'[h] # pc[h]
    \/ port_lock' = h
    \/ ops' # ops /\ ops' # << >> /\ ops'[Len(ops')].by = h

AtPerIpLimit(h) ==
    \E l \in conn_config.per_ip_limits :
      Cardinality(LiveGuardsOf(conn[h].addr)) >= l

\* As many guards are live as max_connections allows.
AtGlobalLimit == Cardinality(LiveGuards) >= conn_config.max_connections

\* accept_connection of h returns Err in this step.
Rejected(h) == conn[h].pc # "rejected" /\ conn'[h].pc = "rejected"

\* The step of h that settles the global limit.
GlobalStep(h) == conn[h].pc = "acc_global" /\ conn'[h].pc # "acc_global"

RtsOp(h, is_transmitting) ==
    LineOp(h, IF to_signal_level(config.rts_type, is_transmitting)
              THEN "rts_high" ELSE "rts_low", << >>)

\* The serial operations of a whole transaction of caller h, in order.
TransactionOps(h) ==
    << RtsOp(h, TRUE), LineOp(h, "write", tx[h].request),
       LineOp(h, "flush", << >>), RtsOp(h, FALSE) >>
      \o (IF config.flush_after_write
          THEN << LineOp(h, "tc_flush", << >>) >> ELSE << >>)

\* In a state: what the holder of the lock has done to the line is the
\* beginning of TransactionOps; it writes with only RTS set, at the
\* transmit level, and it reads with all of them done and RTS at the
\* receive level.
OrderedSoFar(h) ==
    /\ port_lock = h => IsPrefix(ops, TransactionOps(h))
    /\ pc[h] = "writing" =>
         /\ port_lock = h
         /\ ops = << RtsOp(h, TRUE) >>
         /\ rts = to_signal_level(config.rts_type, TRUE)
    /\ pc[h] \in { "reading", "read_yield" } =>
         /\ port_lock = h
         /\ ops = TransactionOps(h)
         /\ rts = to_signal_level(config.rts_type, FALSE)

\* In a step: the lock is taken before anything is done to the line, the
\* request is written whole and before RTS is turned to the receive level,
\* and bytes are read only after all of TransactionOps.
OrderedStep(h) ==
    /\ (port_lock # h /\ port_lock' = h) => ops' = << >>
    /\ (ops' # ops /\ ops' # << >> /\ ops'[Len(ops')].by = h) =>
         port_lock = h
    /\ (\E i \in DOMAIN ops' : i > Len(ops) /\ ops'[i].op = "write") =>
         /\ ops = << RtsOp(h, TRUE) >> => ops'[2].bytes = tx[h].request
         /\ \A i \in DOMAIN ops : ops[i].op \in { "rts_high", "rts_low" }
         /\ Len(ops) = 1
    /\ rbuf'[h] # rbuf[h] /\ rbuf'[h] # << >> =>
         /\ pc[h] = "reading"
         /\ ops = TransactionOps(h)
         /\ rts = to_signal_level(config.rts_type, FALSE)

\* C20: in every transaction the steps occur in the order: take the serial
\* lock, set RTS to the transmit level, write the whole request, flush, set
\* RTS to the receive level, drain the buffers when flush_after_write is
\* set, then read; no byte is read before RTS is at the receive level and
\* no request byte is written after it.
C20_TransactionOrder ==
    /\ [](\A h \in Callers : OrderedSoFar(h))
    /\ [][\A h \in Callers : OrderedStep(h)]_vars

\* A transaction with flush_after_write set has done all its steps and has
\* read an answer.
C20_Witness ==
    \E h \in Callers :
      /\ config.flush_after_write
      /\ pc[h] = "done"
      /\ txres[h].ok
      /\ Len(rbuf[h]) >= 5
      /\ ops = TransactionOps(h)

(***************************************************************************)
(* The read loop of a transaction, checked under SpecBridge.               *)
(***************************************************************************)
\* The step of caller h that ends its transaction from the read loop.
ReadLoopEnds(h) ==
    pc[h] \in { "reading", "read_yield" } /\ pc'[h] = "done"

\* expected_size bytes have been received with this read.
ReceivedAll(h) ==
    /\ Len(rbuf'[h]) > Len(rbuf[h])
    /\ Len(rbuf'[h]) >= tx[h].expected_size

\* At least one byte is buffered and this read brought nothing, the
\* inter-byte silence having passed.
InterByteSilence(h) ==
    /\ Len(rbuf[h]) > 0
    /\ rbuf'[h] = rbuf[h]
    /\ consecutive_timeouts'[h] = consecutive_timeouts[h]
    /\ txres'[h] = finish_read(rbuf[h])

\* The third consecutive read timeout has occurred.
ThreeTimeouts(h) ==
    /\ rbuf'[h] = rbuf[h]
    /\ consecutive_timeouts[h] = MAX_TIMEOUTS - 1
    /\ consecutive_timeouts'[h] = MAX_TIMEOUTS

\* port.read failed with an error other than TimedOut.
ReadFailed(h) ==
    /\ pc[h] = "reading"
    /\ rbuf'[h] = rbuf[h]
    /\ consecutive_timeouts'[h] = consecutive_timeouts[h]
    /\ txres'[h] = Err("Io")

\* The transaction timeout dropped the loop at its yield.
LoopTimedOut(h) ==
    /\ pc[h] = "read_yield"
    /\ rbuf'[h] = rbuf[h]
    /\ txres'[h] = Err("Timeout")

\* NoResponse is returned exactly for zero bytes and three consecutive read
\* timeouts.
NoResponseRule(h) ==
    txres'[h] = Err("NoResponse")
      <=> (Len(rbuf'[h]) = 0 /\ ThreeTimeouts(h))

\* A received byte resets the count of consecutive timeouts.
ReceivedResets(h) ==
    (pc[h] = "reading" /\ Len(rbuf'[h]) > Len(rbuf[h])) =>
      consecutive_timeouts'[h] = 0

\* C21 as stated: the read loop ends only when expected_size bytes have
\* been received, or at least one byte is buffered and the inter-byte
\* silence has passed, or three consecutive read timeouts occur; it returns
\* NoResponse if and only if zero bytes were received and three consecutive
\* read timeouts occurred; a received byte resets the count to 0.
C21_Original ==
    [][\A h \in Callers :
         /\ ReadLoopEnds(h) =>
              /\ ReceivedAll(h) \/ InterByteSilence(h) \/ ThreeTimeouts(h)
              /\ NoResponseRule(h)
         /\ ReceivedResets(h)]_vars

\* C21: the read loop ends only in one of those three ways, or when
\* port.read fails with an error other than TimedOut, or when the
\* transaction timeout expires; NoResponse is returned if and only if zero
\* bytes were received and three consecutive read timeouts occurred; a
\* received byte resets the count to 0.
C21_ReadLoopExits ==
    [][\A h \in Callers :
         /\ ReadLoopEnds(h) =>
              /\ \/ ReceivedAll(h)
                 \/ InterByteSilence(h)
                 \/ ThreeTimeouts(h)
                 \/ ReadFailed(h)
                 \/ LoopTimedOut(h)
              /\ NoResponseRule(h)
         /\ ReceivedResets(h)]_vars

\* A transaction has returned NoResponse after three timeouts without a
\* byte.
C21_Witness ==
    \E h \in Callers :
      /\ pc[h] = "done"
      /\ txres[h] = Err("NoResponse")
      /\ rbuf[h] = << >>
      /\ consecutive_timeouts[h] = MAX_TIMEOUTS

(***************************************************************************)
(* RTS direction control, checked under SpecBridge.                        *)
(***************************************************************************)
\* C22: RTS follows rts_type: for up the line is high while a caller
\* transmits and low while it receives, for down it is low while
\* transmitting and high while receiving, and for none a transaction
\* performs no RTS change at all.
C22_Original ==
    \A h \in Callers :
      /\ config.rts_type = "up" =>
           /\ pc[h] = "writing" => rts
           /\ pc[h] \in { "reading", "read_yield" } => ~rts
      /\ config.rts_type = "down" =>
           /\ pc[h] = "writing" => ~rts
           /\ pc[h] \in { "reading", "read_yield" } => rts
      /\ config.rts_type = "none" =>
           \A i \in 1 .. Len(ops) : ops[i].op \notin { "rts_high", "rts_low" }

(***************************************************************************)
(* The length check of transaction, checked under SpecBridge.              *)
(***************************************************************************)
\* The step in which caller h calls transaction.
CallsTransaction(h) ==
    /\ served'[h] = served[h] + 1
    /\ pc'[h] # "panicked"
    /\ bridge_response_size(req'[h]).ok

\* The states of a caller between taking the serial lock and the end of
\* the read loop.
OnTheLine ==
    { "tx_setup", "tx_delay", "writing", "tx_to_rx", "tc_flush", "rx_delay",
      "reading", "read_yield" }

\* C23: a transaction whose request is longer than max_frame_size fails
\* with the TooLong frame error before the serial lock is taken, with no
\* RTS change and no byte written; a request of exactly max_frame_size
\* bytes is not rejected for its length.
C23_TooLongBeforeLock ==
    [][\A h \in Callers :
         /\ CallsTransaction(h) =>
              IF Len(tx'[h].request) > config.max_frame_size
              THEN /\ txres'[h] = Err("TooLong")
                   /\ pc'[h] = "done"
                   /\ UNCHANGED << port_lock, rts, ops, rx_buf, dev_out >>
              ELSE txres'[h] # Err("TooLong")
         /\ (pc'[h] \in OnTheLine \/ port_lock' = h) =>
              Len(tx'[h].request) <= config.max_frame_size]_vars

\* A request one byte longer than max_frame_size has been rejected.
C23_Witness ==
    \E h \in Callers :
      /\ pc[h] = "done"
      /\ Len(tx[h].request) = config.max_frame_size + 1
      /\ txres[h] = Err("TooLong")
      /\ ops = << >>

\* A request of exactly max_frame_size bytes has been written to the line.
C23_AtTheLimit ==
    \E h \in Callers :
      /\ pc[h] = "reading"
      /\ Len(tx[h].request) = config.max_frame_size

(***************************************************************************)
(* The idle cleanup of the stats actor, checked under SpecStats.           *)
(***************************************************************************)
\* now - last_active <= idle_timeout, or last_error is set and
\* now - last_error <= error_timeout.
WithinTimeouts(entry) ==
    \/ ~entry.idle
    \/ entry.last_error # "none" /\ entry.last_error # "old"

\* The events the actor has handled for addr.
HandledFor(addr) ==
    LET mine(e) == e.addr = addr
    IN  SelectSeq(hist.handled, mine)

\* C24: an idle cleanup of the stats actor keeps an entry, unchanged, if and
\* only if it is within idle_timeout of its last activity or within
\* error_timeout of a recorded error; every other entry is removed,
\* whatever its active_connections value, and no entry is added.
C24_CleanupRetains ==
    [][ActorCleanup =>
         /\ DOMAIN stats_map' \subseteq DOMAIN stats_map
         /\ \A a \in DOMAIN stats_map :
              IF WithinTimeouts(stats_map[a])
              THEN a \in DOMAIN stats_map' /\ stats_map'[a] = stats_map[a]
              ELSE a \notin DOMAIN stats_map']_vars

\* A cleanup has removed the entry of a peer whose connection was counted
\* and never released, and has kept an idle entry for its recent error.
C24_Witness ==
    \E a, b \in Addrs :
      /\ a \in hist.cleaned
      /\ a \notin DOMAIN stats_map
      /\ CountKind(HandledFor(a), "ClientConnected") > 0
      /\ CountKind(HandledFor(a), "ClientDisconnected") = 0
      /\ b \in DOMAIN stats_map
      /\ stats_map[b].idle
      /\ stats_map[b].last_error = "recent"

(***************************************************************************)
(* The idle cleanup of the manager, checked under SpecConn.                *)
(***************************************************************************)
\* Manager::get_stats: the active connections it reports for one address
\* (0 when per_ip_stats has no entry for it) and in total.
reported_active(addr) ==
    IF addr \in DOMAIN stats THEN stats[addr].active_connections ELSE 0

RECURSIVE total_active(_)
total_active(addrs) ==
    IF addrs = {} THEN 0
    ELSE LET a == CHOOSE x \in addrs : TRUE
         IN  reported_active(a) + total_active(addrs \ {a})

\* C25: once cleanup_idle_connections, called after a peer has had no
\* activity for longer than idle_timeout, has returned Ok, get_stats reports
\* 0 active connections for that peer until its next accept, also while
\* the peer's ConnectionGuard is still held.
C25_IdlePeerReportsZero ==
    cleanup.pc = "wait" =>
      \A a \in cleanup.quiet :
        /\ reported_active(a) = 0
        /\ total_active(DOMAIN stats) = total_active(DOMAIN stats \ {a})

\* A cleanup has returned and the idle peer, whose guard is still held, is
\* reported with no active connection.
C25_Witness ==
    \E a \in Addrs :
      /\ cleanup.pc = "wait"
      /\ a \in cleanup.quiet
      /\ LiveGuardsOf(a) # {}
      /\ reported_active(a) = 0

(***************************************************************************)
(* BackoffStrategy, checked under SpecBackoff.                             *)
(***************************************************************************)
\* What the k-th call (k = 0, 1, ...) since new or the last reset is to
\* return.
BackoffOfCall(cfg, k) ==
    IF k < cfg.max_retries
    THEN Some(Min(cfg.initial_interval * powi(cfg.multiplier, k),
                  cfg.max_interval))
    ELSE None

\* C26: next_backoff returns min(initial_interval * multiplier^k,
\* max_interval) on its k-th call (k = 0, 1, ...) for exactly max_retries
\* calls and None on every later call, until reset() is called, after which
\* the sequence starts again.
C26_BackoffSequence ==
    (strategy # << >> /\ strategy.calls > 0) =>
      strategy.ret = BackoffOfCall(strategy.config, strategy.calls - 1)

\* After a reset the strategy has given max_retries intervals again, the
\* last one cut at max_interval, and then None.
C26_Witness ==
    /\ strategy # << >>
    /\ strategy.resets > 0
    /\ strategy.config.max_retries = 3
    /\ strategy.config.initial_interval * 4 > strategy.config.max_interval
    /\ strategy.config.multiplier = 2
    /\ strategy.calls = 4
    /\ strategy.ret = None

(***************************************************************************)
(* ModbusRelay::shutdown, checked under SpecShutdown.                      *)
(***************************************************************************)
\* C27: shutdown always runs all of its steps and returns Ok: a failed
\* stats query, a shutdown broadcast with no receiver, a serial close error
\* or a task that misses the deadline does not stop the serial port from
\* being closed or the stats actor from being signalled.
C27_Original ==
    relay.pc = "returned" =>
      /\ relay.ret = Ok(<< >>)
      /\ relay.close # "none"
      /\ relay.join # "none"
      /\ stats_shutdown # "open"

\* C29: during shutdown the stats actor is signalled to stop only after the
\* close of the serial port has been done (or has failed and been logged)
\* and the spawned tasks have been joined or have timed out, and every stat
\* event put on the channel before the signal has been processed when the
\* actor has stopped.
C29_StatsSignalledLast ==
    /\ stats_shutdown # "open" =>
         /\ relay.close # "none"
         /\ relay.join # "none"
         /\ relay.pc \in { "await_stats", "returned" }
    /\ actor.pc = "stopped" =>
         /\ EnqueuedBeforeSignal \subseteq HandledSeqs
         /\ stats_chan = << >>
    /\ (relay.pc = "returned" /\ relay.ret = Ok(<< >>)) => actor.pc = "stopped"

\* shutdown has returned Ok; a task had missed the deadline, and the actor
\* found a full channel of handler events when it saw the signal.
C29_Witness ==
    /\ relay.pc = "returned"
    /\ relay.ret = Ok(<< >>)
    /\ relay.join = "timeout"
    /\ hist.backlog = StatsChanCap
    /\ Len(hist.handled) = MaxEvents

(***************************************************************************)
(* The two estimates of the response size, checked under SpecBridge.       *)
(***************************************************************************)
\* C30: for every request built by process_request, the number of bytes
\* the transport's read loop waits for equals the length of the response
\* buffer the bridge sized with get_quantity and guess_response_size, for
\* every function code and quantity.
C30_Original ==
    \A h \in Callers :
      (pc[h] \in OnTheLine \cup { "lock_wait" }) =>
        tx[h].expected_size = tx[h].response_len

(***************************************************************************)
(* The count of a peer after the drop of a guard, checked under            *)
(* SpecConnFair.                                                           *)
(***************************************************************************)
\* The guard of connection h has been dropped.
GuardDropped(h) == conn[h].pc = "closed" /\ conn[h].exit \in ExitPaths

\* The count of the peer is what it was without the connection that has
\* gone: one for each guard that is still held.
CountsLiveGuards(addr) ==
    reported_active(addr) = Cardinality(LiveGuardsOf(addr))

\* C28: after a ConnectionGuard is dropped, the manager's connection count
\* for its peer and the active_connections reported by get_stats eventually
\* return to the values they had before the matching accept_connection: the
\* peer's other guards are counted, 0 when it was the peer's only
\* connection.
C28_Original ==
    \A h \in 1 .. NumPeerHandlers :
      GuardDropped(h) ~> CountsLiveGuards("127.0.0.1:1234")

(***************************************************************************)
(* The stat events of a frame, checked under SpecRelay.                    *)
(***************************************************************************)
\* The RequestProcessed events handler h has put on the channel for its
\* k-th frame.
EventsOfFrame(h, k) ==
    { i \in DOMAIN client[h].sent : client[h].sent[i].k = k }

\* handle_frame has returned for every frame handler h has read: it waits
\* for the next frame or has returned an error.
FramesHandled(h) ==
    \/ client[h].pc = "read"
    \/ client[h].pc = "closed" /\ client[h].exit = "error"

\* C31: each frame read by a handler produces exactly one RequestProcessed
\* event, on every path: success, read or validation error, bridge error,
\* and write error or write timeout after a successful bridge call.
C31_Original ==
    \A h \in Clients :
      FramesHandled(h) =>
        \A k \in 1 .. client[h].frames :
          Cardinality(EventsOfFrame(h, k)) = 1

(***************************************************************************)
(* The semaphores after a failed accept, checked under SpecConn.           *)
(***************************************************************************)
\* The permits an accept of addr finds free in a semaphore map: those of
\* the semaphore of the address, or the limit when it has none yet.
FreePerIp(semaphores, addr, limit) ==
    IF addr \in DOMAIN semaphores THEN semaphores[addr] ELSE limit

\* The step in which accept_connection of h returns LimitExceeded.
RejectStep(h) == conn[h].pc # "rejected" /\ conn'[h].pc = "rejected"

\* The rejection leaves the global semaphore alone and h with no permit; at
\* the per-IP limit h had taken nothing and the semaphore of its address
\* keeps its permits, at the global limit the per-IP permit h had taken is
\* back in the semaphore it came from.
RejectKeepsPermits(h) ==
    /\ global_semaphore' = global_semaphore
    /\ ~conn'[h].global_permit /\ ~conn'[h].per_ip_permit
    /\ ~conn[h].global_permit
    /\ \A l \in conn_config.per_ip_limits, a \in Addrs :
         FreePerIp(per_ip_semaphores', a, l) =
           FreePerIp(per_ip_semaphores, a, l)
             + (IF a = conn[h].addr /\ conn[h].per_ip_permit THEN 1 ELSE 0)
    /\ conn'[h].scope = "per_ip" => ~conn[h].per_ip_permit
    /\ conn'[h].scope = "global" =>
         (conn[h].per_ip_permit <=> conn_config.per_ip_limits # {})

\* Nothing is held or being acquired: every connection was turned away, has
\* gone or has not started.
NothingHeld ==
    \A h \in Handlers : conn[h].pc \in { "new", "rejected", "closed" }

\* C32: a failed accept_connection leaves both semaphores as they were: a
\* rejection at the per-peer limit takes no global permit, and a rejection
\* at the global limit gives back the per-peer permit it had taken, so
\* rejected attempts never reduce the capacity left for later accepts.
C32_RejectedTakesNothing ==
    /\ [](NothingHeld =>
            /\ global_semaphore = conn_config.max_connections
            /\ \A l \in conn_config.per_ip_limits, a \in Addrs :
                 FreePerIp(per_ip_semaphores, a, l) = l)
    /\ [][\A h \in Handlers : RejectStep(h) => RejectKeepsPermits(h)]_vars

\* One connection was turned away at the per-IP limit and one at the
\* global limit after it had taken a per-IP permit; the guards that stood
\* in their way have gone and every permit is free again.
C32_Witness ==
    /\ conn_config = [max_connections |-> 1, per_ip_limits |-> {1}]
    /\ NothingHeld
    /\ \E h1, h2, h3 \in Handlers :
         /\ conn[h1].pc = "rejected" /\ conn[h1].scope = "per_ip"
         /\ conn[h2].pc = "rejected" /\ conn[h2].scope = "global"
         /\ conn[h3].pc = "closed" /\ conn[h3].exit \in ExitPaths
    /\ global_semaphore = 1
    /\ \A a \in DOMAIN per_ip_semaphores : per_ip_semaphores[a] = 1

(***************************************************************************)
(* total_connections in a snapshot of the stats actor, checked under       *)
(* SpecStats.                                                              *)
(***************************************************************************)
\* The QueryConnectionStats events the actor has answered.
AnsweredSnapshots ==
    { e \in { hist.handled[i] : i \in DOMAIN hist.handled } :
        e.kind = "QueryConnectionStats" /\ queries[e.seq].state = "replied" }

\* The connections of all peers the actor had counted as accepted when it
\* handled event number id.
AcceptedBefore(id) ==
    LET accepted(e) == e.kind = "ClientConnected" /\ e.seq < id
    IN  Len(SelectSeq(hist.handled, accepted))

\* C33: total_connections as reported in a stats snapshot equals the number
\* of connections accepted so far: a rejected accept does not increase it
\* and a disconnect does not decrease it.
C33_Original ==
    \A e \in AnsweredSnapshots :
      queries[e.seq].val.total_connections = AcceptedBefore(e.seq)

(***************************************************************************)
(* The connections the stats actor counts, checked under SpecConn.         *)
(***************************************************************************)
\* The active_connections the stats actor holds for addr: that of its
\* entry, none without an entry.
actor_active(addr) ==
    IF addr \in DOMAIN stats_map THEN stats_map[addr].active_connections
    ELSE 0

\* C34: at every quiescent moment (stats channel empty), for each peer the
\* active_connections held by the stats actor equals the number of live
\* ConnectionGuards of that peer, under any interleaving of accepts, guard
\* drops, full-channel conditions and idle cleanups.
C34_Original ==
    stats_chan = << >> =>
      \A a \in Addrs : actor_active(a) = Cardinality(LiveGuardsOf(a))

(***************************************************************************)
(* The replies to the queries, checked under SpecStatsFair.                *)
(***************************************************************************)
\* The requester of query number id waits on its one-shot receiver.
QueryWaiting(id) == id \in DOMAIN queries /\ queries[id].state = "waiting"

\* The one-shot channel of query number id has a reply or is closed.
QueryResolved(id) ==
    id \in DOMAIN queries /\ queries[id].state \in { "replied", "closed" }

\* C35: every QueryStats and QueryConnectionStats request placed on the
\* stats channel is eventually resolved for its sender (a reply is sent or
\* the one-shot channel is closed), so no requester waits forever,
\* including for a peer with no entry and for a query sent around or after
\* the actor's shutdown.
C35_QueriesResolved ==
    \A id \in 1 .. MaxEvents : QueryWaiting(id) ~> QueryResolved(id)

\* A snapshot was sent, the query for a peer without an entry was closed by
\* the actor, and a query that was put on the channel after the actor had
\* seen its shutdown signal was closed when the receiver was dropped.
C35_Witness ==
    /\ actor.pc = "stopped"
    /\ \E i, j, k \in DOMAIN queries :
         /\ queries[i].state = "replied"
         /\ \E n \in DOMAIN hist.handled :
              /\ hist.handled[n].seq = j
              /\ hist.handled[n].kind = "QueryStats"
              /\ queries[j].state = "closed"
         /\ k > hist.seen
         /\ k \notin HandledSeqs
         /\ queries[k].state = "closed"

(***************************************************************************)
(* The reach of the transaction timeout, checked under SpecRtu.            *)
(***************************************************************************)
\* Caller h waits for the lock of the port, which another transaction
\* holds.
WaitsForLock(h) == pc[h] = "lock_wait" /\ port_lock \notin { 0, h }

\* C36: the transaction_timeout guard covers only the steps done while
\* holding the serial lock: a transaction that is still waiting for the
\* lock because another transaction is in progress cannot fail with Timeout
\* before it has acquired the lock.
C36_Original ==
    [][\A h \in Callers :
         WaitsForLock(h) => txres'[h] # Err("Timeout")]_vars

(***************************************************************************)
(* Requests without a quantity field, checked under SpecBridge.            *)
(***************************************************************************)
\* The request of caller h has a function code whose quantity is read from
\* the request, and a PDU that ends before its quantity field does.
LacksQuantity(h) ==
    /\ pc[h] # "idle"
    /\ req[h].pdu # << >>
    /\ function_code_of(req[h].pdu) \in { 1, 2, 3, 4, 15, 16 }
    /\ Len(req[h].pdu) < 5

\* C37: for function codes 0x01..0x04, 0x0F and 0x10, a request whose PDU
\* is too short to contain the 2-byte quantity field is rejected by
\* get_quantity with an InvalidFormat frame error and no RTU transaction is
\* started; the quantity used for sizing is never taken from the appended
\* CRC bytes.
C37_Original ==
    \A h \in Callers :
      LacksQuantity(h) =>
        /\ pc[h] = "done"
        /\ result[h] = Err("InvalidFormat")
        /\ txres[h] = Pending

(***************************************************************************)
(* The origin of the bytes of a response, checked under SpecStale.         *)
(***************************************************************************)
\* process_request of caller h has returned the TCP response made of the
\* bytes its transaction read.
SuccessfulResponse(h) == pc[h] = "done" /\ txres[h].ok /\ result[h].ok

\* C38: every successful TCP response carries bytes the device sent in
\* reply to that same request: bytes that arrive after a transaction ended
\* by Timeout or cancellation are never returned as the response of a later
\* transaction, whether or not flush_after_write is set.
\* The formula takes the case the claim names: the transaction of another
\* caller has ended by Timeout.
C38_Original ==
    \A h, g \in Callers :
      (g # h /\ txres[g] = Err("Timeout") /\ SuccessfulResponse(h)) =>
        IsPrefix(txres[h].val, reply[h])

(***************************************************************************)
(* RTS when the port is free, checked under SpecBridge.                    *)
(***************************************************************************)
\* The transaction that holds the lock has set RTS to the transmit level,
\* and this step ends it: the lock is released.
ReleasedAfterTransmit ==
    /\ port_lock # 0
    /\ port_lock' = 0
    /\ ops # << >>

\* C39: whenever no transaction holds the serial lock and rts_type is not
\* none, the RTS line is at the receive level, also after a transaction
\* that ended with a write or flush error, an RTS error, a Timeout or a
\* cancellation between setting the transmit level and setting the receive
\* level.
C39_Original ==
    [][(ReleasedAfterTransmit /\ config.rts_type # "none") =>
         rts' = to_signal_level(config.rts_type, FALSE)]_vars

(***************************************************************************)
(* A frame with a unit id and no PDU, checked under SpecBridge.            *)
(***************************************************************************)
\* 00 01 00 00 00 01 11: length field 1, unit 0x11, no PDU.
UnitOnlyTcp == << 0, 1, 0, 0, 0, 1, 17 >>
UnitOnlyRead == [kind |-> "data", data |-> UnitOnlyTcp]

\* What handle_frame passes to process_request for that frame.
UnitOnlyRequest ==
    process_frame_args(read_frame(UnitOnlyRead).val.frame,
                       read_frame(UnitOnlyRead).val.transaction_id)

\* 11 7F 4C: the unit id and its CRC-16, low byte first.
UnitOnlyRtu == << 17, 127, 76 >>

\* Caller h has written its request to the port.
PastWrite(h) ==
    pc[h] \in { "tx_to_rx", "tc_flush", "rx_delay", "reading", "read_yield" }

\* The writes of caller h among the operations on the port since the lock
\* was last taken.
WritesOf(h) ==
    { i \in 1 .. Len(ops) : ops[i].op = "write" /\ ops[i].by = h }

\* C40: an MBAP frame of exactly 7 bytes with length field 1 (unit id only,
\* empty PDU) passes read_frame validation, and with frame tracing off
\* process_request treats its function code as 0, sizes the response buffer
\* at 256 bytes and sends the 3-byte RTU frame unit_id plus CRC on the
\* serial line.
C40_UnitOnlyFrameSent ==
    /\ read_frame(UnitOnlyRead)
         = Ok([frame |-> UnitOnlyTcp, transaction_id |-> << 0, 1 >>])
    /\ \A h \in Callers :
         (req[h] = UnitOnlyRequest /\ pc[h] # "idle" /\ ~config.trace_frames) =>
           /\ req[h].pdu = << >>
           /\ function_code_of(req[h].pdu) = 0
           /\ bridge_response_size(req[h]) = Ok(256)
           /\ tx[h].response_len = 256
           /\ tx[h].request = UnitOnlyRtu
           /\ pc[h] # "panicked"
           /\ pc[h] = "done" =>
                txres[h] \notin { Pending, Err("InvalidFormat"), Err("TooLong") }
           /\ port_lock = h =>
                \A i \in WritesOf(h) : ops[i].bytes = UnitOnlyRtu
           /\ PastWrite(h) => WritesOf(h) # {}

\* The three bytes have gone out with frame tracing off, and the exception
\* frame the unit answered has come back as the TCP response.
C40_Witness ==
    \E h \in Callers :
      /\ req[h] = UnitOnlyRequest
      /\ ~config.trace_frames
      /\ pc[h] = "done"
      /\ \E i \in WritesOf(h) : ops[i].bytes = UnitOnlyRtu
      /\ txres[h].ok
      /\ result[h] = Ok(<< 0, 1, 0, 0, 0, 3, 17, 128, 2 >>)

====
